---- MODULE Spec2Model ----
(***************************************************************************)
(* A model of the in-memory file system shell: the tokenizer (lexer.rs),   *)
(* the parser (parser.rs), the command objects (commands/*.rs), the node   *)
(* store and Context (tree.rs) and the read-execute loop (main.rs).        *)
(*                                                                         *)
(* Text is a sequence of one-character strings.  A node is a record held   *)
(* in the function `nodes`, keyed by a handle (the Rc allocation); a       *)
(* handle leaves `nodes` when its last owner drops it.                     *)
(***************************************************************************)
EXTENDS Integers, Sequences, FiniteSets, TLC

VARIABLES
    nodes,      \* handle -> node record: every allocation that is still alive
    cur,        \* Context.current_dir: a handle
    pc,         \* position of main: "prompt", "read", "exec", "aborted" (of a
                \* direct node_from_path call: "call", "returned", "aborted")
    queue,      \* the built commands of the current line not yet executed
    err,        \* result of the last generate_commands: "None", "Ok" or a SyntaxError
    built,      \* number of commands the parser had built when it returned
    res,        \* result of the last node_from_path call: "None", "Ok", "Err", "Panic"
    out,        \* what the current line has printed so far
    path,       \* the NodePath handed to the last node_from_path call
    got,        \* the node a direct node_from_path call returned: a handle, or Nil
    typed,      \* the lines read so far, where a session keeps a record of them
    input_text, \* the string handed to Lexer::new, where the front end is called directly
    scanned,    \* what Lexer::tokenize returned for it
    generated,  \* what Parser::generate_commands returned for the tokens
    cb,         \* the CommandBuilder handed to a direct call of build
    made        \* what CommandBuilder::build returned for it

\* the variables of the direct calls of the lexer, the parser and the builders
front == <<input_text, scanned, generated, cb, made>>

vars == <<nodes, cur, pc, queue, err, built, res, out, path, got, typed,
          input_text, scanned, generated, cb, made>>

----------------------------------------------------------------------------
(* Bounds of the model *)

\* at most this many nodes made by mkdir and touch are alive at once
MaxNew == 2

\* bound: a Folder's size only ever grows (remove does not give it back), so
\* a line is read only while the sizes it leaves stay within MaxSize
MaxSize == 13

----------------------------------------------------------------------------
(* F applied to the value of v, which is computed once however often F uses it *)
With(v, F(_)) == CHOOSE y \in {F(x) : x \in {v}} : TRUE

----------------------------------------------------------------------------
(* tree.rs: Node *)

\* Context.root: the handle of the Root node
RootId == 0

\* what Weak::upgrade gives None for: Weak::new(), or a parent that was dropped
Nil == 0 - 1

\* the allocations of build_tree
BuildHandles == 0 .. 19

\* the allocations left for the nodes that mkdir and touch make
NewHandles == 20 .. (19 + MaxNew)

new_root == [kind |-> "Root", name |-> <<>>, size |-> 0, parent |-> Nil,
             children |-> <<>>, depth |-> 0]

new_folder(name) == [kind |-> "Folder", name |-> name, size |-> 0, parent |-> Nil,
                     children |-> <<>>, depth |-> 0]

new_file(name, size) == [kind |-> "File", name |-> name, size |-> size, parent |-> Nil,
                         children |-> <<>>, depth |-> 0]

\* Node::parent is None for Root
has_parent(N, n) == N[n].kind # "Root"

\* Node::children is None for File
has_children(N, n) == N[n].kind # "File"

\* Node::depth
depth(N, n) == IF N[n].kind = "Root" THEN 0 ELSE N[n].depth

\* Node::add: self.add(child).  ok = FALSE is Err(NodeTypeError).
addTransitive(N, self, child) ==
    IF N[self].kind = "File" \/ N[child].kind = "Root"
    THEN [ok |-> FALSE, nodes |-> N]
    ELSE LET N1 == [N EXCEPT ![child].parent = self,
                             ![child].depth = depth(N, self) + 1,
                             ![self].children = Append(@, child),
                             ![self].size = IF N[self].kind = "Folder"
                                            THEN @ + N[child].size ELSE @]
             g == N[self].parent
         IN [ok |-> TRUE,
             nodes |-> IF N[self].kind = "Folder" /\ g \in DOMAIN N
                       THEN [N1 EXCEPT ![g].size = @ + N[child].size]
                       ELSE N1]

addNoParent(N, self, child) ==
    IF N[self].kind = "File" \/ N[child].kind = "Root"
    THEN [ok |-> FALSE, nodes |-> N]
    ELSE [ok |-> TRUE,
          nodes |-> [N EXCEPT ![child].depth = depth(N, self) + 1,
                              ![self].children = Append(@, child),
                              ![self].size = IF N[self].kind = "Folder"
                                             THEN @ + N[child].size ELSE @]]

add(N, self, child) ==
    IF N[self].kind = "File" \/ N[child].kind = "Root"
    THEN [ok |-> FALSE, nodes |-> N]
    ELSE [ok |-> TRUE,
          nodes |-> [N EXCEPT ![child].parent = self,
                              ![child].depth = depth(N, self) + 1,
                              ![self].children = Append(@, child),
                              ![self].size = IF N[self].kind = "Folder"
                                             THEN @ + N[child].size ELSE @]]

\* the index (1-based) of the first child of self named name, 0 if there is none
get_index(N, self, name) ==
    LET cs == N[self].children
        hits == {i \in 1 .. Len(cs) : N[cs[i]].name = name}
    IN IF hits = {} THEN 0 ELSE CHOOSE i \in hits : \A j \in hits : i <= j

\* Vec::swap_remove(i): the last element takes the place of element i
swap_remove(s, i) ==
    LET n == Len(s)
    IN [k \in 1 .. (n - 1) |-> IF k = i THEN s[n] ELSE s[k]]

\* a remove that reports success and leaves the collection as it was
remove_nothing(N, self, name) ==
    IF ~has_children(N, self) THEN [tag |-> "Panic", nodes |-> N]
    ELSE IF get_index(N, self, name) = 0 THEN [tag |-> "Err", nodes |-> N]
    ELSE [tag |-> "Ok", nodes |-> N]

\* Node::remove: tag "Ok", "Err" (Could not locate item) or "Panic"
\* (children().unwrap() on a File)
remove(N, self, name) ==
    IF ~has_children(N, self) THEN [tag |-> "Panic", nodes |-> N]
    ELSE LET i == get_index(N, self, name)
         IN IF i = 0 THEN [tag |-> "Err", nodes |-> N]
            ELSE [tag |-> "Ok",
                  nodes |-> [N EXCEPT ![self].children = swap_remove(@, i)]]

\* the handles reachable from the set S through child collections
RECURSIVE Reach(_, _)
Reach(N, S) ==
    With(S \cup UNION {{N[n].children[i] : i \in 1 .. Len(N[n].children)} : n \in S},
         LAMBDA T : IF T = S THEN S ELSE Reach(N, T))

\* dropping: a node stays allocated while the Context's root or current_dir
\* owns it; a Weak to a dropped node no longer upgrades
drop_unowned(N, c) ==
    With(Reach(N, {RootId, c}),
         LAMBDA alive : [n \in alive |-> IF N[n].parent \in alive THEN N[n]
                                         ELSE [N[n] EXCEPT !.parent = Nil]])

----------------------------------------------------------------------------
(* Text.  A str is modelled as the sequence of its chars; its byte length  *)
(* (str::len, the unit of str slicing) counts every char's UTF-8 width.    *)

\* the one non-ASCII letter of the model: two bytes in UTF-8
WideLetter == "E9"

Letters == {"a", "b", "c", "d", "e", "f", "g", "h", "i", "j", "k", "l", "m",
            "n", "o", "p", "q", "r", "s", "t", "u", "v", "w", "x", "y", "z"}

Digits == <<"0", "1", "2", "3", "4", "5", "6", "7", "8", "9">>

\* char::is_alphabetic
is_alphabetic(c) == c \in Letters \cup {WideLetter}

\* char::is_ascii_digit
is_ascii_digit(c) == \E i \in 1 .. 10 : Digits[i] = c

\* char::len_utf8
len_utf8(c) == IF c = WideLetter THEN 2 ELSE 1

\* byte offset of the char of index k (0-based): the bytes of the first k chars
RECURSIVE byte_offset(_, _)
byte_offset(s, k) == IF k = 0 THEN 0 ELSE byte_offset(s, k - 1) + len_utf8(s[k])

\* str::len
str_len(s) == byte_offset(s, Len(s))

\* Lexer::new: the input, with its byte length and the byte offset of every
\* char boundary (off[k] is where the char of index k starts)
Lexer_new(s) ==
    [input |-> s, len |-> str_len(s), off |-> [k \in 0 .. Len(s) |-> byte_offset(s, k)]]

\* str::is_char_boundary
is_char_boundary(lx, b) == \E k \in 0 .. Len(lx.input) : lx.off[k] = b

\* &input[a..b] panics unless a <= b <= len and both are char boundaries
slice_ok(lx, a, b) ==
    a <= b /\ b <= lx.len /\ is_char_boundary(lx, a) /\ is_char_boundary(lx, b)

\* &input[a..b], given slice_ok
slice(lx, a, b) ==
    LET ka == CHOOSE k \in 0 .. Len(lx.input) : lx.off[k] = a
        kb == CHOOSE k \in 0 .. Len(lx.input) : lx.off[k] = b
    IN SubSeq(lx.input, ka + 1, kb)

\* str::trim, for the white space of the model (the space)
RECURSIVE trim_start(_)
trim_start(s) == IF s # <<>> /\ Head(s) = " " THEN trim_start(Tail(s)) ELSE s

RECURSIVE trim_end(_)
trim_end(s) ==
    IF s # <<>> /\ s[Len(s)] = " " THEN trim_end(SubSeq(s, 1, Len(s) - 1)) ELSE s

trim(s) == trim_end(trim_start(s))

----------------------------------------------------------------------------
(* lexer.rs *)

\* Token: t is the variant; cmd, text, num, ch are the variant's payload
Token(t, cmd, text, num, ch) == [t |-> t, cmd |-> cmd, text |-> text, num |-> num, ch |-> ch]

TokCommand(c) == Token("Command", c, <<>>, 0, "")
TokWord(w) == Token("Word", "", w, 0, "")
TokNumber(n) == Token("Number", "", <<>>, n, "")
TokUnexpected(c) == Token("UnexpectedToken", "", <<>>, 0, c)
TokPlain(t) == Token(t, "", <<>>, 0, "")

\* the multi-character tokens, in the order read_next_token tries them
MultiTokens == <<
    [lit |-> <<"&", "&">>, tok |-> TokPlain("And")],
    [lit |-> <<".", ".">>, tok |-> TokPlain("PreviousDir")],
    [lit |-> <<"t", "o", "u", "c", "h">>, tok |-> TokCommand("Touch")],
    [lit |-> <<"c", "d">>, tok |-> TokCommand("Cd")],
    [lit |-> <<"l", "s">>, tok |-> TokCommand("Ls")],
    [lit |-> <<"m", "k", "d", "i", "r">>, tok |-> TokCommand("Mkdir")],
    [lit |-> <<"r", "m", "d", "i", "r">>, tok |-> TokCommand("Rmdir")],
    [lit |-> <<"r", "m">>, tok |-> TokCommand("Rm")] >>

\* Lexer::check_multi_token: "Yes", "No", or "Panic" (slice off a char boundary)
check_multi_token(lx, cursor, token) ==
    IF cursor + Len(token) > lx.len THEN "No"
    ELSE IF ~slice_ok(lx, cursor, cursor + Len(token)) THEN "Panic"
    ELSE IF slice(lx, cursor, cursor + Len(token)) = token THEN "Yes" ELSE "No"

\* the chain of check_multi_token calls: the first literal that matches
RECURSIVE scan_multi(_, _, _)
scan_multi(lx, cursor, i) ==
    IF i > Len(MultiTokens) THEN [tag |-> "None", tok |-> TokPlain("None"), cursor |-> cursor]
    ELSE LET r == check_multi_token(lx, cursor, MultiTokens[i].lit)
         IN IF r = "Panic"
            THEN [tag |-> "Panic", tok |-> TokPlain("None"), cursor |-> cursor]
            ELSE IF r = "Yes"
            THEN [tag |-> "Tok", tok |-> MultiTokens[i].tok,
                  cursor |-> cursor + Len(MultiTokens[i].lit)]
            ELSE scan_multi(lx, cursor, i + 1)

\* Lexer::get_in_quotes: cursor is a char index here (chars().nth)
get_in_quotes(s, cursor) ==
    LET closing == {k \in cursor .. (Len(s) - 1) : s[k + 1] = "\""}
    IN IF closing = {}
       THEN [text |-> SubSeq(s, cursor + 1, Len(s)),
             cursor |-> IF cursor < Len(s) THEN Len(s) ELSE cursor]
       ELSE LET k == CHOOSE k \in closing : \A j \in closing : k <= j
            IN [text |-> SubSeq(s, cursor + 1, k), cursor |-> k + 1]

\* the digits of usize::MAX = 18446744073709551615
UsizeMaxDigits == <<1, 8, 4, 4, 6, 7, 4, 4, 0, 7, 3, 7, 0, 9, 5, 5, 1, 6, 1, 5>>

digit_value(c) == (CHOOSE i \in 1 .. 10 : Digits[i] = c) - 1

RECURSIVE strip_zeros(_)
strip_zeros(d) == IF d # <<>> /\ Head(d) = 0 THEN strip_zeros(Tail(d)) ELSE d

\* d > e, for digit sequences of one length
RECURSIVE digits_greater(_, _)
digits_greater(d, e) ==
    IF d = <<>> THEN FALSE
    ELSE IF Head(d) # Head(e) THEN Head(d) > Head(e)
    ELSE digits_greater(Tail(d), Tail(e))

\* str::parse::<usize> fails (and the unwrap panics) above usize::MAX
parse_overflows(d) ==
    LET z == strip_zeros(d)
    IN \/ Len(z) > Len(UsizeMaxDigits)
       \/ Len(z) = Len(UsizeMaxDigits) /\ digits_greater(z, UsizeMaxDigits)

\* every parsed value from 10^9 up to usize::MAX is represented by this one
\* value: the program only compares a Number with 0 and with 4194304
BigNumber == 1000000000

RECURSIVE decimal_value(_)
decimal_value(d) ==
    IF d = <<>> THEN 0 ELSE 10 * decimal_value(SubSeq(d, 1, Len(d) - 1)) + d[Len(d)]

parse_usize(d) ==
    LET z == strip_zeros(d)
    IN IF Len(z) > 9 THEN BigNumber ELSE decimal_value(z)

\* Lexer::get_number_token: cursor is a char index here (chars().nth)
get_number_token(s, cursor) ==
    LET stops == {k \in cursor .. (Len(s) - 1) : ~is_ascii_digit(s[k + 1])}
        end == IF stops = {} THEN Len(s)
               ELSE CHOOSE k \in stops : \A j \in stops : k <= j
        d == [i \in 1 .. (end - cursor) |-> digit_value(s[cursor + i])]
    IN [panic |-> parse_overflows(d), num |-> parse_usize(d), cursor |-> end]

\* Lexer::next_token_index: "Panic" is the slice &input[cursor..] off a boundary
next_token_index(lx, cursor) ==
    IF ~slice_ok(lx, cursor, lx.len) THEN [panic |-> TRUE, next |-> cursor]
    ELSE LET rest == slice(lx, cursor, lx.len)
             hits == {i \in 0 .. (Len(rest) - 1) : rest[i + 1] \in {".", "/", "&", " "}}
         IN [panic |-> FALSE,
             next |-> IF hits = {} THEN lx.len
                      ELSE cursor + (CHOOSE i \in hits : \A j \in hits : i <= j)]

Panicked(cursor) == [tag |-> "Panic", tok |-> TokPlain("None"), cursor |-> cursor]

\* Lexer::read_next_token: tag "None" (end of input), "Tok" or "Panic"
read_next_token(lx, cursor) ==
    IF cursor = lx.len
    THEN [tag |-> "None", tok |-> TokPlain("None"), cursor |-> cursor]
    ELSE LET m == scan_multi(lx, cursor, 1)
             s == lx.input
         IN IF m.tag # "None" THEN m
            ELSE IF cursor >= Len(s) THEN Panicked(cursor)  \* chars().nth(cursor).unwrap()
            ELSE LET c == s[cursor + 1]
                 IN IF c = "." THEN [tag |-> "Tok", tok |-> TokPlain("Dot"), cursor |-> cursor + 1]
                    ELSE IF c = "/" THEN [tag |-> "Tok", tok |-> TokPlain("Slash"), cursor |-> cursor + 1]
                    ELSE IF c = " " THEN [tag |-> "Tok", tok |-> TokPlain("Space"), cursor |-> cursor + 1]
                    ELSE IF c = "\""
                    THEN LET q == get_in_quotes(s, cursor + 1)
                         IN [tag |-> "Tok", tok |-> TokWord(q.text), cursor |-> q.cursor]
                    ELSE IF is_ascii_digit(c)
                    THEN LET n == get_number_token(s, cursor)
                         IN IF n.panic THEN Panicked(cursor)
                            ELSE [tag |-> "Tok", tok |-> TokNumber(n.num), cursor |-> n.cursor]
                    ELSE IF is_alphabetic(c)
                    THEN LET nx == next_token_index(lx, cursor)
                         IN IF nx.panic \/ ~slice_ok(lx, cursor, nx.next) THEN Panicked(cursor)
                            ELSE [tag |-> "Tok", tok |-> TokWord(slice(lx, cursor, nx.next)),
                                  cursor |-> nx.next]
                    ELSE [tag |-> "Tok", tok |-> TokUnexpected(c), cursor |-> cursor + 1]

\* Lexer::tokenize: the loop over read_next_token
RECURSIVE tokenize_from(_, _, _)
tokenize_from(lx, cursor, accumulator) ==
    With(read_next_token(lx, cursor),
         LAMBDA r : IF r.tag = "Panic" THEN [panic |-> TRUE, tokens |-> accumulator]
                    ELSE IF r.tag = "None" THEN [panic |-> FALSE, tokens |-> accumulator]
                    ELSE tokenize_from(lx, r.cursor, Append(accumulator, r.tok)))

tokenize(s) == With(Lexer_new(s), LAMBDA lx : tokenize_from(lx, 0, <<>>))

----------------------------------------------------------------------------
(* What the program prints: one record per println!. *)

Msg(text) == [kind |-> "msg", text |-> text, name |-> <<>>, folder |-> FALSE, size |-> 0]
MsgAbout(text, name) ==
    [kind |-> "msg", text |-> text, name |-> name, folder |-> FALSE, size |-> 0]
Entry(name, folder, size) ==
    [kind |-> "entry", text |-> "", name |-> name, folder |-> folder, size |-> size]

----------------------------------------------------------------------------
(* parser.rs *)

\* NodePathSegment
Seg(k, name) == [k |-> k, name |-> name]

\* Argument
ArgPath(p) == [a |-> "Path", path |-> p, num |-> 0]
ArgNumber(n) == [a |-> "Number", path |-> <<>>, num |-> n]

\* faulty variant: only the first token is looked at
validate_token_order_first_only(previous, token) ==
    IF previous.t = "None" /\ token.t # "Command" THEN "InvalidCommand" ELSE "Ok"

\* Parser::validate_token_order: previous is a token, or TokPlain("None") for None
validate_token_order(previous, token) ==
    LET t == token.t
        p == previous.t
    IN IF p = "Slash" THEN (IF t \in {"Word", "And", "Space"} THEN "Ok" ELSE "UnexpectedToken")
       ELSE IF p = "PreviousDir" THEN (IF t = "Slash" THEN "Ok" ELSE "UnexpectedToken")
       ELSE IF p = "Dot" THEN (IF t = "Word" THEN "Ok" ELSE "UnexpectedToken")
       ELSE IF p = "Word"
       THEN (IF t \in {"And", "Slash", "Dot", "Space"} THEN "Ok" ELSE "UnexpectedToken")
       ELSE IF p = "Command" THEN (IF t = "Space" THEN "Ok" ELSE "UnexpectedToken")
       ELSE IF p = "Space" THEN (IF t = "Dot" THEN "UnexpectedToken" ELSE "Ok")
       ELSE IF p = "And" THEN (IF t \in {"Command", "Space"} THEN "Ok" ELSE "UnexpectedToken")
       ELSE IF p = "Number" THEN (IF t = "Space" THEN "Ok" ELSE "UnexpectedToken")
       ELSE IF p = "UnexpectedToken" THEN "Ok"
       ELSE (IF t = "Command" THEN "Ok" ELSE "InvalidCommand")

\* compile_path: the loop over the tokens from index i on
RECURSIVE compile_path_from(_, _, _)
compile_path_from(tokens, i, p) ==
    IF i > Len(tokens) THEN [err |-> "Ok", path |-> p]
    ELSE LET token == tokens[i]
         IN IF token.t = "Word"
            THEN compile_path_from(tokens, i + 1, Append(p, Seg("Dir", token.text)))
            ELSE IF token.t = "PreviousDir"
            THEN compile_path_from(tokens, i + 1, Append(p, Seg("Parent", <<>>)))
            ELSE IF token.t = "Dot"
            THEN IF p = <<>> \/ i = Len(tokens) THEN [err |-> "InvalidPath", path |-> p]
                 ELSE IF tokens[i + 1].t = "Word"
                 THEN LET last == p[Len(p)]
                          ext == tokens[i + 1].text
                      IN IF last.k = "Dir"
                         THEN [err |-> "Ok",
                               path |-> [p EXCEPT ![Len(p)] =
                                            Seg("File", last.name \o <<".">> \o ext)]]
                         ELSE [err |-> "Ok",
                               path |-> Append(p, Seg("File", <<".">> \o ext))]
                 ELSE [err |-> "InvalidPath", path |-> p]
            ELSE compile_path_from(tokens, i + 1, p)

\* compile_path without the Root segment of a leading Slash
compile_path_without_root(tokens) == compile_path_from(tokens, 1, <<>>)

compile_path(tokens) ==
    compile_path_from(tokens, 1,
                      IF tokens # <<>> /\ tokens[1].t = "Slash"
                      THEN <<Seg("Root", <<>>)>> ELSE <<>>)

\* compile_argument
compile_argument(tokens) ==
    IF tokens # <<>> /\ tokens[1].t \in {"Word", "Slash", "PreviousDir"}
    THEN With(compile_path(tokens), LAMBDA r : [err |-> r.err, arg |-> ArgPath(r.path)])
    ELSE IF tokens # <<>> /\ tokens[1].t = "Number"
    THEN [err |-> "Ok", arg |-> ArgNumber(tokens[1].num)]
    ELSE [err |-> "UnexpectedToken", arg |-> ArgNumber(0)]

----------------------------------------------------------------------------
(* commands/*.rs: build.  A built command is [verb, path, name, size];     *)
(* err is "Ok", a SyntaxError, or "Panic" (path.last().unwrap() on an      *)
(* empty path).                                                            *)

Cmd(verb, p, name, size) == [verb |-> verb, path |-> p, name |-> name, size |-> size]

NoCmd == Cmd("None", <<>>, <<>>, 0)

Failed(e) == [err |-> e, cmd |-> NoCmd]

Built(c) == [err |-> "Ok", cmd |-> c]

init(p) == SubSeq(p, 1, Len(p) - 1)

\* faulty variant: the kind of the first argument is looked at before the
\* number of arguments
CdCmd_build_kind_first(arguments) ==
    IF arguments # <<>> /\ arguments[1].a # "Path" THEN Failed("InvalidType")
    ELSE IF Len(arguments) # 1 THEN Failed("InvalidArguments")
    ELSE Built(Cmd("Cd", arguments[1].path, <<>>, 0))

\* CdCmd::build
CdCmd_build(arguments) ==
    IF Len(arguments) # 1 THEN Failed("InvalidArguments")
    ELSE IF arguments[1].a # "Path" THEN Failed("InvalidType")
    ELSE LET p == arguments[1].path
         IN IF p = <<>> THEN Failed("Panic")
            ELSE IF p[Len(p)].k \in {"File", "Root"} THEN Failed("InvalidType")
            ELSE Built(Cmd("Cd", p, <<>>, 0))

\* LsCmd::build
LsCmd_build(arguments) ==
    IF Len(arguments) # 1 /\ Len(arguments) # 0 THEN Failed("InvalidArguments")
    ELSE IF Len(arguments) = 1
    THEN IF arguments[1].a # "Path" THEN Failed("InvalidType")
         ELSE LET p == arguments[1].path
              IN IF p = <<>> THEN Failed("Panic")
                 ELSE IF p[Len(p)].k \in {"File", "Root"} THEN Failed("InvalidType")
                 ELSE Built(Cmd("Ls", p, <<>>, 0))
    ELSE Built(Cmd("Ls", <<>>, <<>>, 0))

\* MkdirCmd::build and RmdirCmd::build: the last segment must be a Dir
dir_build(verb, arguments) ==
    IF Len(arguments) # 1 THEN Failed("InvalidArguments")
    ELSE IF arguments[1].a # "Path" THEN Failed("InvalidType")
    ELSE LET p == arguments[1].path
         IN IF p = <<>> THEN Failed("Panic")
            ELSE IF p[Len(p)].k # "Dir" THEN Failed("InvalidType")
            ELSE Built(Cmd(verb, init(p), p[Len(p)].name, 0))

MkdirCmd_build(arguments) == dir_build("Mkdir", arguments)

RmdirCmd_build(arguments) == dir_build("Rmdir", arguments)

\* TouchCmd::build
TouchCmd_build(arguments) ==
    IF Len(arguments) # 2 /\ Len(arguments) # 1 THEN Failed("InvalidArguments")
    ELSE IF arguments[1].a # "Path" THEN Failed("InvalidType")
    ELSE LET p == arguments[1].path
         IN IF p = <<>> THEN Failed("Panic")
            ELSE IF p[Len(p)].k # "File" THEN Failed("InvalidType")
            ELSE IF Len(arguments) = 2 /\ arguments[2].a # "Number"
            THEN Failed("InvalidType")
            ELSE Built(Cmd("Touch", init(p), p[Len(p)].name,
                           IF Len(arguments) = 2 THEN arguments[2].num ELSE 1))

\* RmCmd::build
RmCmd_build(arguments) ==
    IF Len(arguments) # 1 THEN Failed("InvalidArguments")
    ELSE IF arguments[1].a # "Path" THEN Failed("InvalidType")
    ELSE LET p == arguments[1].path
         IN IF p = <<>> THEN Failed("Panic")
            ELSE IF p[Len(p)].k # "File" THEN Failed("InvalidType")
            ELSE Built(Cmd("Rm", init(p), p[Len(p)].name, 0))

\* CommandBuilder::build
build(builder) ==
    IF builder.command_type = "Cd" THEN CdCmd_build(builder.arguments)
    ELSE IF builder.command_type = "Ls" THEN LsCmd_build(builder.arguments)
    ELSE IF builder.command_type = "Touch" THEN TouchCmd_build(builder.arguments)
    ELSE IF builder.command_type = "Mkdir" THEN MkdirCmd_build(builder.arguments)
    ELSE IF builder.command_type = "Rm" THEN RmCmd_build(builder.arguments)
    ELSE RmdirCmd_build(builder.arguments)

----------------------------------------------------------------------------
(* parser.rs: Parser::generate_commands *)

\* CommandBuilder::new, and the None of Option<CommandBuilder>
CommandBuilder(command_type) ==
    [some |-> TRUE, command_type |-> command_type, arguments |-> <<>>]

NoBuilder == [some |-> FALSE, command_type |-> "None", arguments |-> <<>>]

\* CommandBuilder::add_argument through Option::map: nothing happens on None
add_argument(builder, arg) ==
    IF builder.some THEN [builder EXCEPT !.arguments = Append(@, arg)] ELSE builder

\* Parser::new: arg_start is a 0-based token index, or Nil for None.  handed
\* is not a field of the Parser: it records, in order, every argument that
\* add_argument received from the parser
Parser_new ==
    [current_command |-> NoBuilder, previous_token |-> TokPlain("None"),
     arg_start |-> Nil, commands |-> <<>>, printed |-> <<>>, handed |-> <<>>]

Returned(e, st) ==
    [err |-> e, commands |-> st.commands, printed |-> st.printed, handed |-> st.handed]

\* current_command.take() and build, as the And arm and the final token do
take_and_build(st) ==
    IF st.current_command.some
    THEN With(build(st.current_command), LAMBDA b :
              [err |-> b.err,
               st |-> [st EXCEPT !.current_command = NoBuilder,
                                 !.commands = IF b.err = "Ok" THEN Append(@, b.cmd) ELSE @]])
    ELSE [err |-> "Ok", st |-> st]

\* compile the open argument span tokens[arg_start .. to) and hand it to the builder
close_argument(tokens, to, st) ==
    IF st.arg_start # Nil
    THEN With(compile_argument(SubSeq(tokens, st.arg_start + 1, to)), LAMBDA c :
              [err |-> c.err,
               st |-> [st EXCEPT !.current_command = add_argument(@, c.arg),
                                 !.arg_start = Nil,
                                 !.handed = IF c.err = "Ok" /\ st.current_command.some
                                            THEN Append(@, c.arg) ELSE @]])
    ELSE [err |-> "Ok", st |-> st]

\* the match on the token, parser.rs 60-94
on_token(tokens, cursor, st) ==
    LET token == tokens[cursor + 1]
    IN IF token.t = "Command"
       THEN [err |-> "Ok", st |-> [st EXCEPT !.current_command = CommandBuilder(token.cmd)]]
       ELSE IF token.t = "And" THEN take_and_build(st)
       ELSE IF token.t = "Space" THEN close_argument(tokens, cursor, st)
       ELSE IF token.t = "UnexpectedToken"
       THEN [err |-> "Ok",
             st |-> [st EXCEPT !.printed = Append(@, MsgAbout("Unexpected Token", <<token.ch>>))]]
       ELSE [err |-> "Ok",
             st |-> IF st.arg_start = Nil THEN [st EXCEPT !.arg_start = cursor] ELSE st]

\* after the final token, parser.rs 96-112
on_final_token(tokens, st) ==
    LET a == close_argument(tokens, Len(tokens), st)
    IN IF a.err # "Ok" THEN a ELSE take_and_build(a.st)

\* one turn of the for loop of generate_commands, for the token of index
\* cursor (0-based): err is "Ok" or the SyntaxError that `?` returns
on_turn(tokens, cursor, st) ==
    LET v == validate_token_order(st.previous_token, tokens[cursor + 1])
        m == on_token(tokens, cursor, st)
        f == IF cursor = Len(tokens) - 1 THEN on_final_token(tokens, m.st)
             ELSE [err |-> "Ok", st |-> m.st]
    IN IF v # "Ok" THEN [err |-> v, st |-> st]
       ELSE IF m.err # "Ok" THEN m
       ELSE IF f.err # "Ok" THEN f
       ELSE [err |-> "Ok", st |-> [f.st EXCEPT !.previous_token = tokens[cursor + 1]]]

\* the for loop of generate_commands, from the token of index cursor on
RECURSIVE generate_from(_, _, _)
generate_from(tokens, cursor, st) ==
    IF cursor >= Len(tokens) THEN Returned("Ok", st)
    ELSE With(on_turn(tokens, cursor, st), LAMBDA r :
              IF r.err # "Ok" THEN Returned(r.err, r.st)
              ELSE generate_from(tokens, cursor + 1, r.st))

\* Parser::generate_commands: err is "Ok" or the SyntaxError returned; commands
\* is the local vector at that moment (it is handed to the caller only on Ok)
generate_commands(tokens) ==
    IF Len(tokens) < 1
    THEN [err |-> "CommandNotProvided", commands |-> <<>>, printed |-> <<>>,
          handed |-> <<>>]
    ELSE generate_from(tokens, 0, Parser_new)

----------------------------------------------------------------------------
(* tree.rs: Context *)

Found(n) == [tag |-> "Ok", node |-> n]
NotFound(n) == [tag |-> "Err", node |-> n]
Unwound(n) == [tag |-> "Panic", node |-> n]

\* Context::dir_to_child: children().unwrap() panics on a File
dir_to_child(N, dir, dir_name) ==
    IF ~has_children(N, dir) THEN Unwound(dir)
    ELSE LET i == get_index(N, dir, dir_name)
         IN IF i = 0 THEN NotFound(dir) ELSE Found(N[dir].children[i])

\* Context::dir_to_parent: parent().unwrap() panics on Root, upgrade().unwrap()
\* panics when the parent was dropped
dir_to_parent(N, dir) ==
    IF ~has_parent(N, dir) THEN Unwound(dir)
    ELSE IF N[dir].parent \notin DOMAIN N THEN Unwound(dir)
    ELSE Found(N[dir].parent)

\* Context::dir_to_root
dir_to_root(N, dir) == Found(RootId)

\* the loop of node_from_path over the segments from index i on
RECURSIVE resolve_from(_, _, _, _)
resolve_from(N, buffer_dir, p, i) ==
    IF i > Len(p) THEN Found(buffer_dir)
    ELSE With(IF p[i].k = "Root" THEN dir_to_root(N, buffer_dir)
              ELSE IF p[i].k = "Dir" THEN dir_to_child(N, buffer_dir, p[i].name)
              ELSE IF p[i].k = "Parent" THEN dir_to_parent(N, buffer_dir)
              ELSE NotFound(buffer_dir),
              LAMBDA r : IF r.tag # "Ok" THEN r ELSE resolve_from(N, r.node, p, i + 1))

\* Context::node_from_path
node_from_path(N, current_dir, p) == resolve_from(N, current_dir, p, 1)

\* impl Display for Node: TRUE when rendering n panics (upgrade().unwrap() on a
\* parent that was dropped)
RECURSIVE fmt_panics(_, _)
fmt_panics(N, n) ==
    IF ~has_parent(N, n) THEN FALSE
    ELSE IF N[n].parent \notin DOMAIN N THEN TRUE
    ELSE fmt_panics(N, N[n].parent)

----------------------------------------------------------------------------
(* commands/*.rs: execute.  The outcome of executing one command: the tree *)
(* and current directory it leaves, the node_from_path result it saw, what *)
(* it printed, and whether it panicked.                                    *)

Outcome(N, c, r, o, panicked) ==
    [nodes |-> N, cur |-> c, res |-> r, out |-> o, panic |-> panicked]

\* Rc::new: the allocation a new node gets
fresh(N) ==
    CHOOSE h \in NewHandles : h \notin DOMAIN N /\ \A g \in NewHandles : g < h => g \in DOMAIN N

\* CdCmd::execute
CdCmd_execute(N, c, cmd) ==
    With(node_from_path(N, c, cmd.path), LAMBDA target :
       IF target.tag = "Panic" THEN Outcome(N, c, "Panic", <<>>, TRUE)
       ELSE IF target.tag = "Ok"
       THEN IF N[target.node].kind = "Root"
            THEN Outcome(N, c, "Ok", <<Msg("No parent folder")>>, FALSE)
            ELSE Outcome(N, target.node, "Ok", <<>>, FALSE)
       ELSE Outcome(N, c, "Err", <<>>, FALSE))

\* the println! of LsCmd::execute for each child
listing(N, n) ==
    [i \in 1 .. Len(N[n].children) |->
        LET ch == N[n].children[i]
        IN Entry(N[ch].name, N[ch].kind = "Folder", N[ch].size)]

\* LsCmd::execute: children().unwrap() panics on a File
LsCmd_execute(N, c, cmd) ==
    With(node_from_path(N, c, cmd.path), LAMBDA target :
       IF target.tag = "Panic" THEN Outcome(N, c, "Panic", <<>>, TRUE)
       ELSE IF target.tag = "Ok"
       THEN IF ~has_children(N, target.node) THEN Outcome(N, c, "Ok", <<>>, TRUE)
            ELSE Outcome(N, c, "Ok", listing(N, target.node), FALSE)
       ELSE Outcome(N, c, "Err", <<>>, FALSE))

\* target.add(Rc::new(node)).unwrap(): the unwrap panics on NodeTypeError
add_new(N, c, target, node) ==
    With(fresh(N), LAMBDA h :
    With(add(N @@ (h :> node), target, h), LAMBDA a :
         IF a.ok THEN Outcome(a.nodes, c, "Ok", <<>>, FALSE)
         ELSE Outcome(N, c, "Ok", <<>>, TRUE)))

\* MkdirCmd::execute
MkdirCmd_execute(N, c, cmd) ==
    IF str_len(cmd.name) > 12
    THEN Outcome(N, c, "None", <<Msg("The dir name cannot be over 12 characters")>>, FALSE)
    ELSE With(node_from_path(N, c, cmd.path), LAMBDA target :
            IF target.tag = "Panic" THEN Outcome(N, c, "Panic", <<>>, TRUE)
            ELSE IF target.tag = "Ok" THEN add_new(N, c, target.node, new_folder(cmd.name))
            ELSE Outcome(N, c, "Err", <<>>, FALSE))

\* file_name.split(".").last(): the text after the last "."
after_last_dot(name) ==
    LET dots == {i \in 1 .. Len(name) : name[i] = "."}
    IN IF dots = {} THEN name
       ELSE SubSeq(name, (CHOOSE i \in dots : \A j \in dots : j <= i) + 1, Len(name))

\* TouchCmd::execute
TouchCmd_execute(N, c, cmd) ==
    IF \E i \in 1 .. Len(cmd.name) : cmd.name[i] = " "
    THEN Outcome(N, c, "None", <<Msg("The file name cannot contain spaces")>>, FALSE)
    ELSE IF str_len(cmd.name) > 12
    THEN Outcome(N, c, "None", <<Msg("The file name cannot be over 12 characters")>>, FALSE)
    ELSE IF cmd.size >= 4194304
    THEN Outcome(N, c, "None", <<Msg("The file size can only be up to 4GB")>>, FALSE)
    ELSE IF cmd.size = 0
    THEN Outcome(N, c, "None", <<Msg("Cannot create a file with 0 size")>>, FALSE)
    ELSE IF str_len(after_last_dot(cmd.name)) # 3
    THEN Outcome(N, c, "None", <<Msg("File extension must be 3 characters because Doc said so.")>>, FALSE)
    ELSE With(node_from_path(N, c, cmd.path), LAMBDA target :
            IF target.tag = "Panic" THEN Outcome(N, c, "Panic", <<>>, TRUE)
            ELSE IF target.tag = "Ok"
            THEN add_new(N, c, target.node, new_file(cmd.name, cmd.size))
            ELSE Outcome(N, c, "Err", <<>>, FALSE))

\* target.remove(name) and the println! of its error
remove_named(N, c, target, name) ==
    With(remove(N, target, name), LAMBDA r :
         IF r.tag = "Panic" THEN Outcome(N, c, "Ok", <<>>, TRUE)
         ELSE IF r.tag = "Err"
         THEN Outcome(N, c, "Ok", <<MsgAbout("Could not locate item", name)>>, FALSE)
         ELSE Outcome(r.nodes, c, "Ok", <<>>, FALSE))

\* RmCmd::execute
RmCmd_execute(N, c, cmd) ==
    With(node_from_path(N, c, cmd.path), LAMBDA target :
       IF target.tag = "Panic" THEN Outcome(N, c, "Panic", <<>>, TRUE)
       ELSE IF target.tag = "Ok" THEN remove_named(N, c, target.node, cmd.name)
       ELSE Outcome(N, c, "Err", <<Msg("Invalid path")>>, FALSE))

\* an rmdir without the comparison of depths
RmdirCmd_execute_unchecked(N, c, cmd) ==
    With(node_from_path(N, c, cmd.path), LAMBDA target :
       IF target.tag = "Panic" THEN Outcome(N, c, "Panic", <<>>, TRUE)
       ELSE IF target.tag = "Ok" THEN remove_named(N, c, target.node, cmd.name)
       ELSE Outcome(N, c, "Err", <<Msg("Invalid path")>>, FALSE))

\* RmdirCmd::execute
RmdirCmd_execute(N, c, cmd) ==
    With(node_from_path(N, c, cmd.path), LAMBDA target :
       IF target.tag = "Panic" THEN Outcome(N, c, "Panic", <<>>, TRUE)
       ELSE IF target.tag = "Ok"
       THEN IF depth(N, target.node) < depth(N, c)
            THEN Outcome(N, c, "Ok",
                         <<Msg("Cannot remove directory as it is less deep than the current directory")>>,
                         FALSE)
            ELSE remove_named(N, c, target.node, cmd.name)
       ELSE Outcome(N, c, "Err", <<Msg("Invalid path")>>, FALSE))

\* Command::execute, by the command's type, and the drops at the end of
\* the call: a panic leaves the tree as it was
execute_cmd(N, c, cmd) ==
    IF cmd.verb = "Cd" THEN CdCmd_execute(N, c, cmd)
    ELSE IF cmd.verb = "Ls" THEN LsCmd_execute(N, c, cmd)
    ELSE IF cmd.verb = "Touch" THEN TouchCmd_execute(N, c, cmd)
    ELSE IF cmd.verb = "Mkdir" THEN MkdirCmd_execute(N, c, cmd)
    ELSE IF cmd.verb = "Rm" THEN RmCmd_execute(N, c, cmd)
    ELSE RmdirCmd_execute(N, c, cmd)

execute(N, c, cmd) ==
    With(execute_cmd(N, c, cmd), LAMBDA o :
         IF o.panic THEN o ELSE [o EXCEPT !.nodes = drop_unowned(o.nodes, o.cur)])

----------------------------------------------------------------------------
(* tree.rs: build_tree *)

home == <<"h", "o", "m", "e">>
user1 == <<"u", "s", "e", "r", "1">>
documents == <<"d", "o", "c", "u", "m", "e", "n", "t", "s">>
cv_pdf == <<"c", "v", ".", "p", "d", "f">>
data_dat == <<"d", "a", "t", "a", ".", "d", "a", "t">>
downloads == <<"d", "o", "w", "n", "l", "o", "a", "d", "s">>
music == <<"m", "u", "s", "i", "c">>
mp3 == <<".", "m", "p", "3">>
photos == <<"p", "h", "o", "t", "o", "s">>
japan2026 == <<"j", "a", "p", "a", "n", "2", "0", "2", "6">>

\* every Rc::new of build_tree, by handle, before any add
build_tree_nodes ==
    (0 :> new_root) @@ (1 :> new_folder(home)) @@ (2 :> new_folder(user1))
    @@ (3 :> new_folder(documents))
    @@ (4 :> new_file(cv_pdf, 1)) @@ (5 :> new_file(data_dat, 1))
    @@ (6 :> new_folder(downloads)) @@ (7 :> new_folder(music))
    @@ (8 :> new_file(<<"1">> \o mp3, 1)) @@ (9 :> new_file(<<"2">> \o mp3, 1))
    @@ (10 :> new_file(<<"3">> \o mp3, 1)) @@ (11 :> new_file(<<"4">> \o mp3, 1))
    @@ (12 :> new_file(<<"5">> \o mp3, 1)) @@ (13 :> new_file(<<"6">> \o mp3, 1))
    @@ (14 :> new_file(<<"7">> \o mp3, 1)) @@ (15 :> new_file(<<"8">> \o mp3, 1))
    @@ (16 :> new_file(<<"9">> \o mp3, 1)) @@ (17 :> new_file(<<"1", "0">> \o mp3, 1))
    @@ (18 :> new_folder(photos)) @@ (19 :> new_folder(japan2026))

\* the add calls of build_tree, <<parent, child>>, in the order of the source
build_tree_adds ==
    << <<0, 1>>, <<1, 2>>, <<3, 4>>, <<3, 5>>,
       <<7, 8>>, <<7, 9>>, <<7, 10>>, <<7, 11>>, <<7, 12>>,
       <<7, 13>>, <<7, 14>>, <<7, 15>>, <<7, 16>>, <<7, 17>>,
       <<2, 3>>, <<2, 6>>, <<2, 7>>, <<2, 18>>, <<18, 19>> >>

RECURSIVE add_all(_, _, _)
add_all(N, adds, i) ==
    IF i > Len(adds) THEN N
    ELSE With(add(N, adds[i][1], adds[i][2]).nodes, LAMBDA M : add_all(M, adds, i + 1))

\* build_tree: the tree, and the Context's current_dir (the user folder)
build_tree == [nodes |-> add_all(build_tree_nodes, build_tree_adds, 1), cur |-> 2]

----------------------------------------------------------------------------
(* main.rs *)

\* handle_err: the message for a SyntaxError
handle_err(e) ==
    IF e = "CommandNotProvided" THEN Msg("Please provide a command")
    ELSE IF e = "InvalidCommand" THEN Msg("The provided command is not valid")
    ELSE IF e = "InvalidPath" THEN Msg("The provided path is not valid")
    ELSE IF e = "UnexpectedToken" THEN Msg("Unexpected token in input")
    ELSE IF e = "InvalidArguments" THEN Msg("Arguments to the command are not valid")
    ELSE Msg("The type of an argument is not valid")

\* a main that runs whatever commands were built before the error
commands_to_run_built(r) == r.commands

\* faulty variant: the built commands are executed from the last to the first
commands_to_run_reversed(r) ==
    IF r.err = "Ok"
    THEN [i \in 1 .. Len(r.commands) |-> r.commands[Len(r.commands) + 1 - i]]
    ELSE <<>>

\* the match on the parser's result: the commands main goes on to execute
commands_to_run(r) == IF r.err = "Ok" THEN r.commands ELSE <<>>

\* the lines the user may type (get_user_input)
Lines == {
    \* cd documents
    <<"c", "d", " ", "d", "o", "c", "u", "m", "e", "n", "t", "s">>,
    \* cd ..
    <<"c", "d", " ", ".", ".">>,
    \* cd /home/user1
    <<"c", "d", " ", "/", "h", "o", "m", "e", "/", "u", "s", "e", "r", "1">>,
    \* cd documents/"cv.pdf"
    <<"c", "d", " ", "d", "o", "c", "u", "m", "e", "n", "t", "s", "/", "\"", "c", "v", ".", "p", "d", "f", "\"">>,
    \* ls
    <<"l", "s">>,
    \* mkdir downloads/ab
    <<"m", "k", "d", "i", "r", " ", "d", "o", "w", "n", "l", "o", "a", "d", "s", "/", "a", "b">>,
    \* mkdir downloads/"a.b"
    <<"m", "k", "d", "i", "r", " ", "d", "o", "w", "n", "l", "o", "a", "d", "s", "/", "\"", "a", ".", "b", "\"">>,
    \* cd downloads/"a.b"
    <<"c", "d", " ", "d", "o", "w", "n", "l", "o", "a", "d", "s", "/", "\"", "a", ".", "b", "\"">>,
    \* touch downloads/x.txt 5
    <<"t", "o", "u", "c", "h", " ", "d", "o", "w", "n", "l", "o", "a", "d", "s", "/", "x", ".", "t", "x", "t", " ", "5">>,
    \* touch downloads/y.txt 3
    <<"t", "o", "u", "c", "h", " ", "d", "o", "w", "n", "l", "o", "a", "d", "s", "/", "y", ".", "t", "x", "t", " ", "3">>,
    \* rm downloads/x.txt
    <<"r", "m", " ", "d", "o", "w", "n", "l", "o", "a", "d", "s", "/", "x", ".", "t", "x", "t">>,
    \* rmdir downloads/ab
    <<"r", "m", "d", "i", "r", " ", "d", "o", "w", "n", "l", "o", "a", "d", "s", "/", "a", "b">>,
    \* rm ../a.b
    <<"r", "m", " ", ".", ".", "/", "a", ".", "b">>,
    \* rmdir /home/user1/documents
    <<"r", "m", "d", "i", "r", " ", "/", "h", "o", "m", "e", "/", "u", "s", "e", "r", "1", "/", "d", "o", "c", "u", "m", "e", "n", "t", "s">>,
    \* cd documents/"cv.pdf"/x
    <<"c", "d", " ", "d", "o", "c", "u", "m", "e", "n", "t", "s", "/", "\"", "c", "v", ".", "p", "d", "f", "\"", "/", "x">>,
    \* mkdir downloads/ab && rm ab
    <<"m", "k", "d", "i", "r", " ", "d", "o", "w", "n", "l", "o", "a", "d", "s", "/", "a", "b", " ", "&", "&", " ", "r", "m", " ", "a", "b">>,
    \* cd /
    <<"c", "d", " ", "/">>,
    \* cd zz
    <<"c", "d", " ", "z", "z">>,
    \* rmdir ../documents
    <<"r", "m", "d", "i", "r", " ", ".", ".", "/", "d", "o", "c", "u", "m", "e", "n", "t", "s">>,
    \* (the empty line)
    <<>>,
    \* touch downloads/x.txt 5 && touch downloads/y.txt 3
    <<"t", "o", "u", "c", "h", " ", "d", "o", "w", "n", "l", "o", "a", "d", "s", "/", "x", ".", "t", "x", "t", " ", "5", " ", "&", "&", " ", "t", "o", "u", "c", "h", " ", "d", "o", "w", "n", "l", "o", "a", "d", "s", "/", "y", ".", "t", "x", "t", " ", "3">>,
    \* mkdir downloads/ab && touch downloads/ab/x.txt 5
    <<"m", "k", "d", "i", "r", " ", "d", "o", "w", "n", "l", "o", "a", "d", "s", "/", "a", "b", " ", "&", "&", " ", "t", "o", "u", "c", "h", " ", "d", "o", "w", "n", "l", "o", "a", "d", "s", "/", "a", "b", "/", "x", ".", "t", "x", "t", " ", "5">>,
    \* touch /x.txt 5
    <<"t", "o", "u", "c", "h", " ", "/", "x", ".", "t", "x", "t", " ", "5">>
}

\* the lines of the recorded sessions, by name
\* cd documents
line_cd_documents == <<"c", "d", " ", "d", "o", "c", "u", "m", "e", "n", "t", "s">>

\* cd /home
line_cd_home == <<"c", "d", " ", "/", "h", "o", "m", "e">>

\* cd /
line_cd_root == <<"c", "d", " ", "/">>

\* ls
line_ls == <<"l", "s">>

\* ls ..
line_ls_parent == <<"l", "s", " ", ".", ".">>

\* mkdir ab
line_mkdir_ab == <<"m", "k", "d", "i", "r", " ", "a", "b">>

\* mkdir ab && rmdir ab
line_mkdir_rmdir == <<"m", "k", "d", "i", "r", " ", "a", "b", " ", "&", "&", " ", "r", "m", "d", "i", "r", " ", "a", "b">>

\* touch documents/data.dat 5
line_touch_data == <<"t", "o", "u", "c", "h", " ", "d", "o", "c", "u", "m", "e", "n", "t", "s", "/", "d", "a", "t", "a", ".", "d", "a", "t", " ", "5">>

\* rm documents/cv.pdf
line_rm_cv == <<"r", "m", " ", "d", "o", "c", "u", "m", "e", "n", "t", "s", "/", "c", "v", ".", "p", "d", "f">>

\* mkdir docs && touch docs/a.txt 5
line_chain_docs == <<"m", "k", "d", "i", "r", " ", "d", "o", "c", "s", " ", "&", "&", " ", "t", "o", "u", "c", "h", " ", "d", "o", "c", "s", "/", "a", ".", "t", "x", "t", " ", "5">>

\* cd zz && rm zz.txt && touch a.b 5 && mkdir ab
line_chain_failing == <<"c", "d", " ", "z", "z", " ", "&", "&", " ", "r", "m", " ", "z", "z", ".", "t", "x", "t", " ", "&", "&", " ", "t", "o", "u", "c", "h", " ", "a", ".", "b", " ", "5", " ", "&", "&", " ", "m", "k", "d", "i", "r", " ", "a", "b">>

\* rmdir ../music
line_rmdir_sibling == <<"r", "m", "d", "i", "r", " ", ".", ".", "/", "m", "u", "s", "i", "c">>

ScriptLines == {line_cd_documents, line_cd_home, line_cd_root, line_ls, line_ls_parent, line_mkdir_ab,
                line_mkdir_rmdir, line_touch_data, line_rm_cv, line_chain_docs, line_chain_failing, line_rmdir_sibling,
                \* touch documents/"cv.pdf"/a.txt 5
                <<"t", "o", "u", "c", "h", " ", "d", "o", "c", "u", "m", "e", "n", "t", "s", "/", "\"", "c", "v", ".", "p", "d", "f", "\"", "/", "a", ".", "t", "x", "t", " ", "5">>}

\* main.rs 58-64: the line is trimmed, tokenized and parsed.  panic is a panic
\* of the lexer or of a builder.
front_end(line) ==
    With(tokenize(trim(line)), LAMBDA lexed :
    With(generate_commands(lexed.tokens), LAMBDA r :
         [panic |-> lexed.panic \/ r.err = "Panic", err |-> r.err,
          commands |-> r.commands, printed |-> r.printed]))

\* front_end for every line the model reads (it depends on the line alone)
Parsed == [line \in Lines \cup ScriptLines |-> front_end(line)] @@ <<>>

\* nothing has been handed to the lexer, the parser or a builder directly
no_calls ==
    /\ input_text = <<>>
    /\ scanned = [panic |-> FALSE, tokens |-> <<>>]
    /\ generated = [err |-> "None", commands |-> <<>>, printed |-> <<>>, handed |-> <<>>]
    /\ cb = NoBuilder
    /\ made = Failed("None")

\* the number of commands of cmds that allocate a node when they succeed
creations(cmds) == Cardinality({i \in 1 .. Len(cmds) : cmds[i].verb \in {"Mkdir", "Touch"}})

\* the tree a line's commands leave behind, run as main's for loop runs them
RECURSIVE run(_, _, _)
run(N, c, cmds) ==
    IF cmds = <<>> THEN N
    ELSE With(execute(N, c, Head(cmds)), LAMBDA o :
              IF o.panic THEN N ELSE run(o.nodes, o.cur, Tail(cmds)))

within_bounds(N, cmds) ==
    /\ Cardinality(DOMAIN N \cap NewHandles) + creations(cmds) <= MaxNew
    /\ \E M \in {run(N, cur, cmds)} : \A n \in DOMAIN M : M[n].size <= MaxSize

Init ==
    /\ nodes = build_tree.nodes
    /\ cur = build_tree.cur
    /\ pc = "prompt"
    /\ queue = <<>>
    /\ err = "None"
    /\ built = 0
    /\ res = "None"
    /\ out = <<>>
    /\ path = <<>>
    /\ got = Nil
    /\ typed = <<>>
    /\ no_calls

\* print!("{}> ", ctx.current_dir().borrow()): rendering the prompt walks the
\* parent references up to Root
Prompt ==
    /\ pc = "prompt"
    /\ pc' = IF fmt_panics(nodes, cur) THEN "aborted" ELSE "read"
    /\ err' = "None"
    /\ built' = 0
    /\ res' = "None"
    /\ out' = <<>>
    /\ path' = <<>>
    /\ UNCHANGED <<nodes, cur, queue, got, typed>>
    /\ UNCHANGED front

\* one line is read, trimmed, tokenized and parsed
read_line(line) ==
    /\ pc = "read"
    /\ \E r \in {Parsed[line]} :
          IF r.panic
          THEN /\ pc' = "aborted"
               /\ UNCHANGED <<queue, err, built, out>>
          ELSE /\ within_bounds(nodes, commands_to_run(r))
               /\ queue' = commands_to_run(r)
               /\ err' = r.err
               /\ built' = Len(r.commands)
               /\ out' = IF r.err = "Ok" THEN r.printed
                         ELSE Append(r.printed, handle_err(r.err))
               /\ pc' = IF commands_to_run(r) = <<>> THEN "prompt" ELSE "exec"
    /\ UNCHANGED <<nodes, cur, res, path, got>>
    /\ UNCHANGED front

ReadLine(line) == read_line(line) /\ UNCHANGED typed

\* for command in commands.iter(): whatever result a command returns, the
\* loop goes on with the commands after it
after_command(o, rest) == rest

\* the next command of the line is executed; what it no longer owns is dropped
Exec ==
    /\ pc = "exec"
    /\ queue # <<>>
    /\ \E o \in {execute(nodes, cur, Head(queue))} :
          /\ nodes' = o.nodes
          /\ cur' = o.cur
          /\ res' = o.res
          /\ out' = out \o o.out
          /\ queue' = after_command(o, Tail(queue))
          /\ pc' = IF o.panic THEN "aborted"
                   ELSE IF after_command(o, Tail(queue)) = <<>> THEN "prompt" ELSE "exec"
    /\ path' = Head(queue).path
    /\ UNCHANGED <<err, built, got, typed>>
    /\ UNCHANGED front

Next ==
    \/ Prompt
    \/ \E line \in Lines : ReadLine(line)
    \/ Exec

Spec == Init /\ [][Next]_vars

----------------------------------------------------------------------------
(* Recorded sessions: the same loop, reading at most MaxLines lines of     *)
(* ScriptLines from start-up and keeping the lines read in `typed`.        *)

\* bound: the number of lines of a recorded session
MaxLines == 3

ReadScripted(line) ==
    /\ Len(typed) < MaxLines
    /\ read_line(line)
    /\ typed' = Append(typed, line)

NextScript ==
    \/ Prompt
    \/ \E line \in ScriptLines : ReadScripted(line)
    \/ Exec

SpecScript == Init /\ [][NextScript]_vars

----------------------------------------------------------------------------
(* Context::node_from_path called directly, as the tests of tree.rs call   *)
(* it: on the tree of build_tree, with a NodePath the caller made.         *)

\* bound: the number of segments of a NodePath handed to node_from_path
MaxPath == 3

\* the segments a caller's NodePath is made of
Segments == {Seg("Root", <<>>), Seg("Parent", <<>>), Seg("Dir", home),
             Seg("Dir", user1), Seg("Dir", documents), Seg("Dir", cv_pdf),
             Seg("Dir", <<"z", "z">>), Seg("File", cv_pdf)}

NodePaths == UNION {[1 .. n -> Segments] : n \in 0 .. MaxPath}

InitPath ==
    /\ nodes = build_tree.nodes
    /\ cur = build_tree.cur
    /\ pc = "call"
    /\ path \in NodePaths
    /\ queue = <<>>
    /\ err = "None"
    /\ built = 0
    /\ res = "None"
    /\ out = <<>>
    /\ got = Nil
    /\ typed = <<>>
    /\ no_calls

\* a node_from_path whose buffer_dir is the Context's current_dir itself
current_dir_aliased(current_dir, r) == r.node

\* the Context's current_dir after node_from_path returned r: the call only
\* borrows it to clone it into buffer_dir, and walks the clone
current_dir_after(current_dir, r) == current_dir

\* ctx.node_from_path(&path), then at position `then`
resolve(then) ==
    /\ \E r \in {node_from_path(nodes, cur, path)} :
          /\ res' = r.tag
          /\ got' = IF r.tag = "Ok" THEN r.node ELSE Nil
          /\ cur' = current_dir_after(cur, r)
          /\ pc' = IF r.tag = "Panic" THEN "aborted" ELSE then
    /\ UNCHANGED <<nodes, queue, err, built, out, path, typed>>
    /\ UNCHANGED front

\* ctx.node_from_path(&path): res is the Result's variant, a panic aborts
Resolve == pc = "call" /\ resolve("returned")

\* the same call once more, on the Context the first call left
ResolveAgain == pc = "returned" /\ resolve("again")

NextPath == Resolve \/ ResolveAgain

SpecPath == InitPath /\ [][NextPath]_vars

----------------------------------------------------------------------------
(* The lexer, the parser and the builders called directly, as the tests of *)
(* lexer.rs and parser.rs call them.                                       *)

\* the shell itself is as build_tree left it and takes no step
shell_at_start ==
    /\ nodes = build_tree.nodes
    /\ cur = build_tree.cur
    /\ queue = <<>>
    /\ err = "None"
    /\ built = 0
    /\ res = "None"
    /\ out = <<>>
    /\ path = <<>>
    /\ got = Nil
    /\ typed = <<>>

shell == <<nodes, cur, queue, err, built, res, out, path, got, typed>>

\* let commands = parser.generate_commands(), for the tokens at hand
Generate ==
    /\ pc = "tokens"
    /\ generated' = generate_commands(scanned.tokens)
    /\ pc' = "generated"
    /\ UNCHANGED <<shell, input_text, scanned, cb, made>>

\* bound: the number of tokens of a vector handed to Parser::new
MaxTokens == 4

\* one token of every variant of Token, and a second command keyword
TokenAlphabet ==
    {TokCommand("Cd"), TokCommand("Ls"), TokWord(<<"a">>), TokPlain("PreviousDir"),
     TokPlain("Space"), TokPlain("Dot"), TokPlain("Slash"), TokPlain("And"),
     TokNumber(5), TokUnexpected("#")}

\* bound: the number of tokens of the argument span after a command and a space
MaxSpan == 3

\* every vector of up to MaxTokens tokens, and a command, a space and every
\* span of MaxSpan tokens
TokenSeqs ==
    UNION {[1 .. n -> TokenAlphabet] : n \in 0 .. MaxTokens}
    \cup {<<TokCommand(verb), TokPlain("Space")>> \o span :
             verb \in {"Cd", "Mkdir", "Touch"}, span \in [1 .. MaxSpan -> TokenAlphabet]}

\* Parser::new(tokens) for a vector of tokens the caller made
InitTokens ==
    /\ shell_at_start
    /\ pc = "tokens"
    /\ input_text = <<>>
    /\ scanned \in {[panic |-> FALSE, tokens |-> ts] : ts \in TokenSeqs}
    /\ generated = [err |-> "None", commands |-> <<>>, printed |-> <<>>, handed |-> <<>>]
    /\ cb = NoBuilder
    /\ made = Failed("None")

SpecTokens == InitTokens /\ [][Generate]_vars

\* bound: the number of segments of a path of a grammar line
MaxSegs == 3

\* bound: the number of chars of the short input strings
MaxText == 3

\* the segments of a path other than its file name: `..` and a folder name
PathSegments == {<<".", ".">>, <<"x">>}

\* the file names of a path: a name with an extension, one beginning with a digit
FileNames == {<<"a", ".", "t", "x", "t">>, <<"1", ".", "m", "p", "3">>}

\* segs joined by `/`
RECURSIVE joined(_)
joined(segs) ==
    IF Len(segs) = 1 THEN segs[1] ELSE segs[1] \o <<"/">> \o joined(Tail(segs))

\* the folder paths of the path grammar: an optional leading `/`, then
\* segments separated by `/`
FolderPaths ==
    {lead \o joined(segs) :
        lead \in {<<>>, <<"/">>},
        segs \in UNION {[1 .. n -> PathSegments] : n \in 1 .. MaxSegs}}

\* the file paths of the path grammar: a file name, alone, under `/` or after
\* a folder path
FilePaths ==
    {before \o name :
        before \in {<<>>, <<"/">>} \cup {p \o <<"/">> : p \in FolderPaths},
        name \in FileNames}

\* the keyword of every verb, as main's user types it
Keyword ==
    [Cd |-> <<"c", "d">>, Ls |-> <<"l", "s">>, Mkdir |-> <<"m", "k", "d", "i", "r">>,
     Rmdir |-> <<"r", "m", "d", "i", "r">>, Rm |-> <<"r", "m">>,
     Touch |-> <<"t", "o", "u", "c", "h">>]

\* the single-verb lines of the grammar: the verb with its number of
\* arguments, every path argument a path of the grammar of the kind the verb
\* takes (cd, ls: a folder path; mkdir, rmdir: a folder path ending in a name;
\* rm, touch: a file path)
GrammarLines ==
    {<<"l", "s">>}
    \cup {Keyword[v] \o <<" ">> \o p : v \in {"Cd", "Ls"}, p \in FolderPaths}
    \cup {Keyword[v] \o <<" ">> \o p :
             v \in {"Mkdir", "Rmdir"}, p \in {q \in FolderPaths : q[Len(q)] = "x"}}
    \cup {Keyword[v] \o <<" ">> \o p : v \in {"Rm", "Touch"}, p \in FilePaths}
    \cup {Keyword.Touch \o <<" ">> \o p \o <<" ", "5">> : p \in FilePaths}

\* the chars of the short input strings: letters, a space, the punctuation of
\* the lexer, a digit, a quote, a char the lexer does not know, a wide letter
TextAlphabet == {"c", "d", " ", ".", "/", "&", "1", "\"", "#", WideLetter}

ShortTexts == UNION {[1 .. n -> TextAlphabet] : n \in 0 .. MaxText}

\* longer input strings: a digit run above usize::MAX, the inputs of the tests
\* of lexer.rs in short, a folder name that begins with a keyword, quoted
\* names, chains with no space before `&&`, chains of two lines of the
\* grammar, and folder names that begin with a keyword after mkdir
NamedTexts == {
    \* cd .. && ls
    <<"c", "d", " ", ".", ".", " ", "&", "&", " ", "l", "s">>,
    \* touch a.txt 5 && ls
    <<"t", "o", "u", "c", "h", " ", "a", ".", "t", "x", "t", " ", "5", " ", "&", "&", " ", "l", "s">>,
    \* mkdir x && cd x
    <<"m", "k", "d", "i", "r", " ", "x", " ", "&", "&", " ", "c", "d", " ", "x">>,
    \* ls && cd ..
    <<"l", "s", " ", "&", "&", " ", "c", "d", " ", ".", ".">>,
    \* mkdir cdrom
    <<"m", "k", "d", "i", "r", " ", "c", "d", "r", "o", "m">>,
    \* rmdir abc
    <<"r", "m", "d", "i", "r", " ", "a", "b", "c">>,
    \* mkdir lsfiles
    <<"m", "k", "d", "i", "r", " ", "l", "s", "f", "i", "l", "e", "s">>,
    \* 99999999999999999999
    <<"9", "9", "9", "9", "9", "9", "9", "9", "9", "9", "9", "9", "9", "9", "9", "9", "9", "9", "9", "9">>,
    \* cd abc/def/file.txt
    <<"c", "d", " ", "a", "b", "c", "/", "d", "e", "f", "/", "f", "i", "l", "e", ".", "t", "x", "t">>,
    \* cd ../abc
    <<"c", "d", " ", ".", ".", "/", "a", "b", "c">>,
    \* cd abc && ls
    <<"c", "d", " ", "a", "b", "c", " ", "&", "&", " ", "l", "s">>,
    \* touch abc 12
    <<"t", "o", "u", "c", "h", " ", "a", "b", "c", " ", "1", "2">>,
    \* cd cdrom
    <<"c", "d", " ", "c", "d", "r", "o", "m">>,
    \* cd "a b/c.d ls"
    <<"c", "d", " ", "\"", "a", " ", "b", "/", "c", ".", "d", " ", "l", "s", "\"">>,
    \* cd "ab"x
    <<"c", "d", " ", "\"", "a", "b", "\"", "x">>,
    \* cd "ab
    <<"c", "d", " ", "\"", "a", "b">>,
    \* cd "ab"
    <<"c", "d", " ", "\"", "a", "b", "\"">>,
    \* cd abc&&ls
    <<"c", "d", " ", "a", "b", "c", "&", "&", "l", "s">>,
    \* ls abc&&cd
    <<"l", "s", " ", "a", "b", "c", "&", "&", "c", "d">> }

\* the strings handed to Lexer::new
InputTexts == GrammarLines \cup ShortTexts \cup NamedTexts

\* Lexer::new(input) for a string the caller made
InitFront ==
    /\ shell_at_start
    /\ pc = "input"
    /\ input_text \in InputTexts
    /\ scanned = [panic |-> FALSE, tokens |-> <<>>]
    /\ generated = [err |-> "None", commands |-> <<>>, printed |-> <<>>, handed |-> <<>>]
    /\ cb = NoBuilder
    /\ made = Failed("None")

\* let tokens = cmd_lexer.tokenize(): a panic of the lexer aborts
Tokenize ==
    /\ pc = "input"
    /\ \E r \in {tokenize(input_text)} :
          /\ scanned' = r
          /\ pc' = IF r.panic THEN "aborted" ELSE "tokens"
    /\ UNCHANGED <<shell, input_text, generated, cb, made>>

NextFront == Tokenize \/ Generate

SpecFront == InitFront /\ [][NextFront]_vars

\* bound: the number of arguments of a CommandBuilder handed to build
MaxArgs == 3

\* the arguments a caller's builder holds: a path to a folder, to a file, to
\* Root, to the parent, the empty path, and a number
ArgAlphabet ==
    {ArgPath(<<Seg("Dir", <<"x">>)>>), ArgPath(<<Seg("File", <<"a", ".", "t", "x", "t">>)>>),
     ArgPath(<<Seg("Root", <<>>)>>), ArgPath(<<Seg("Parent", <<>>)>>), ArgPath(<<>>),
     ArgNumber(5)}

\* CommandBuilder::new(command_type), then add_argument for every argument
Builders ==
    {[some |-> TRUE, command_type |-> v, arguments |-> args] :
        v \in {"Cd", "Ls", "Mkdir", "Rmdir", "Rm", "Touch"},
        args \in UNION {[1 .. n -> ArgAlphabet] : n \in 0 .. MaxArgs}}

InitBuild ==
    /\ shell_at_start
    /\ pc = "builder"
    /\ input_text = <<>>
    /\ scanned = [panic |-> FALSE, tokens |-> <<>>]
    /\ generated = [err |-> "None", commands |-> <<>>, printed |-> <<>>, handed |-> <<>>]
    /\ cb \in Builders
    /\ made = Failed("None")

\* command.build(): path.last().unwrap() on an empty path aborts
Build ==
    /\ pc = "builder"
    /\ \E b \in {build(cb)} :
          /\ made' = b
          /\ pc' = IF b.err = "Panic" THEN "aborted" ELSE "built"
    /\ UNCHANGED <<shell, input_text, scanned, generated, cb>>

SpecBuild == InitBuild /\ [][Build]_vars

----------------------------------------------------------------------------
(* Properties *)

\* the nodes attached to the tree: reachable from Root through child links
Attached == Reach(nodes, {RootId})

\* the immediate children of node m, as a set
ChildSet(N, m) == {N[m].children[i] : i \in 1 .. Len(N[m].children)}

\* every place <<m, i>> of a child collection: entry i of node m's children
Places(N) == UNION {{<<m, i>> : i \in 1 .. Len(N[m].children)} : m \in DOMAIN N}

\* the sum of the sizes of the nodes of the sequence cs
RECURSIVE SizeSum(_, _)
SizeSum(N, cs) == IF cs = <<>> THEN 0 ELSE N[Head(cs)].size + SizeSum(N, Tail(cs))

\* Where following path p from node n, by the meaning of the segments, first
\* cannot go on: "DirOnFile" (a Dir segment at a File), "NoSuchChild" (a Dir
\* segment naming no immediate child), "ParentOfRoot" (a Parent segment at
\* Root), "Other", or "End" when every segment can be followed.
RECURSIVE Walk(_, _, _, _)
Walk(N, n, p, i) ==
    IF i > Len(p) THEN "End"
    ELSE IF p[i].k = "Root" THEN Walk(N, RootId, p, i + 1)
    ELSE IF p[i].k = "Parent"
    THEN IF N[n].kind = "Root" THEN "ParentOfRoot"
         ELSE IF N[n].parent \notin DOMAIN N THEN "Other"
         ELSE Walk(N, N[n].parent, p, i + 1)
    ELSE IF p[i].k = "Dir"
    THEN IF N[n].kind = "File" THEN "DirOnFile"
         ELSE LET named == {i2 \in 1 .. Len(N[n].children) :
                               N[N[n].children[i2]].name = p[i].name}
              IN IF named = {} THEN "NoSuchChild"
                 ELSE Walk(N, N[n].children[CHOOSE j \in named : \A k \in named : j <= k],
                           p, i + 1)
    ELSE "Other"

\* C1: processing a line (tokenize, parse, execute, render the prompt) never
\* aborts the session, whatever lines came before
C1_NeverAborts == pc # "aborted"

\* C2: while the line being processed is one whose parse returned a
\* SyntaxError, no step changes the tree or the current directory, nothing is
\* queued for execution, and the loop is back at the prompt
C2_ParseErrorRunsNothing ==
    [][err' \notin {"None", "Ok"}
         => /\ nodes' = nodes
            /\ cur' = cur
            /\ queue' = <<>>
            /\ pc' = "prompt"]_vars

\* a line was rejected after one of its commands had already been built
C2_RejectedAfterBuilding == err \notin {"None", "Ok"} /\ built > 0 /\ pc = "prompt"

\* C3: every node attached to the tree, other than Root, has a parent
\* reference to a live node, occurs exactly once in all the child collections
\* together, and that occurrence is in its parent's collection
C3_ParentBackReference ==
    \E places \in {Places(nodes)} :
        \A n \in Attached \ {RootId} :
            /\ nodes[n].parent \in DOMAIN nodes
            /\ \E mi \in places :
                  /\ nodes[mi[1]].children[mi[2]] = n
                  /\ mi[1] = nodes[n].parent
                  /\ \A other \in places \ {mi} :
                        nodes[other[1]].children[other[2]] # n

\* a node made by mkdir or touch is attached, and the documents folder of
\* build_tree was removed (its siblings reordered by swap_remove)
C3_AddedAndRemoved ==
    /\ NewHandles \cap Attached # {}
    /\ \A n \in DOMAIN nodes : nodes[n].name # documents

\* C4: the current directory is attached to the tree (reachable from Root
\* through child links)
C4_CurrentDirAttached == cur \in Attached

\* C5: the current directory is a Folder, never Root and never a File
C5_CurrentDirIsFolder == nodes[cur].kind = "Folder"

\* C6: Root has depth 0 and every attached File and Folder has the depth of
\* its parent plus 1
C6_DepthIsParentDepthPlusOne ==
    /\ depth(nodes, RootId) = 0
    /\ \A n \in Attached \ {RootId} :
          /\ nodes[n].parent \in DOMAIN nodes
          /\ depth(nodes, n) = depth(nodes, nodes[n].parent) + 1

\* C7: the size of every attached Folder is the sum of the sizes of its
\* immediate children
C7_FolderSizeIsSumOfChildren ==
    \A n \in Attached :
        nodes[n].kind = "Folder" => nodes[n].size = SizeSum(nodes, nodes[n].children)

\* C8: a step that adds a node h under a Folder raises that Folder's size by
\* exactly h's size and changes the size of no other node; a step that adds a
\* node under Root changes no size
C8_AddGrowsOnlyTheParent ==
    [][\A h \in DOMAIN nodes' \ DOMAIN nodes :
          LET p == nodes'[h].parent
              grown == IF p \in DOMAIN nodes /\ nodes[p].kind = "Folder" THEN {p} ELSE {}
          IN /\ p \in DOMAIN nodes
             /\ \A n \in grown : nodes'[n].size = nodes[n].size + nodes'[h].size
             /\ \A n \in (DOMAIN nodes \cap DOMAIN nodes') \ grown :
                   nodes'[n].size = nodes[n].size]_vars

\* downloads, created empty, holds exactly two files added directly, of sizes
\* 5 and 3, and has size 8
C8_FiveAndThreeGiveEight ==
    \E n \in Attached :
        /\ nodes[n].name = downloads
        /\ Len(nodes[n].children) = 2
        /\ {nodes[ch].size : ch \in ChildSet(nodes, n)} = {5, 3}
        /\ \A ch \in ChildSet(nodes, n) : ch \in NewHandles /\ nodes[ch].kind = "File"
        /\ nodes[n].size = 8

\* C9: when the path of the command about to run has a Dir segment that
\* cannot be followed (the node reached is a File, or has no child of that
\* name), node_from_path returns the not-found error: it does not abort
C9_UnfollowableDirIsNotFound ==
    (pc = "exec" /\ queue # <<>>
        /\ Walk(nodes, cur, Head(queue).path, 1) \in {"DirOnFile", "NoSuchChild"})
    => node_from_path(nodes, cur, Head(queue).path).tag = "Err"

RECURSIVE Descend(_, _, _, _)
Descend(N, n, p, i) ==
    IF i > Len(p) THEN n
    ELSE LET named == {k \in 1 .. Len(N[n].children) : N[N[n].children[k]].name = p[i].name}
         IN Descend(N, N[n].children[CHOOSE j \in named : \A k \in named : j <= k], p, i + 1)

\* p is made of Dir segments that each name a child of the node reached so far
AllDirsExist(N, n, p) ==
    (\A i \in 1 .. Len(p) : p[i].k = "Dir") /\ Walk(N, n, p, 1) = "End"

\* what a step that is a node_from_path call has to satisfy
PureCall ==
    /\ nodes' = nodes
    /\ cur' = cur
    /\ (pc = "returned") => (res' = res /\ got' = got)
    /\ AllDirsExist(nodes, cur, path) => (res' = "Ok" /\ got' = Descend(nodes, cur, path, 1))

RECURSIVE Follow(_, _, _, _)
Follow(N, n, p, i) ==
    IF i > Len(p) THEN n
    ELSE IF p[i].k = "Root" THEN Follow(N, RootId, p, i + 1)
    ELSE IF p[i].k = "Parent" THEN Follow(N, N[n].parent, p, i + 1)
    ELSE Follow(N, Descend(N, n, <<p[i]>>, 1), p, i + 1)

\* the nodes a command names: the children called cmd.name of the node that
\* cmd.path leads to from c
NamedBy(N, c, cmd) ==
    IF Walk(N, c, cmd.path, 1) # "End" THEN {}
    ELSE {ch \in ChildSet(N, Follow(N, c, cmd.path, 1)) : N[ch].name = cmd.name}

\* the command the next Exec step executes is of type verb
Executing(verb) == pc = "exec" /\ queue # <<>> /\ Head(queue).verb = verb

DepthMessage == Msg("Cannot remove directory as it is less deep than the current directory")

\* rmdir is about to run on an existing folder shallower than the current directory
ShallowerFolderNamed ==
    /\ Executing("Rmdir")
    /\ \E f \in NamedBy(nodes, cur, Head(queue)) :
          nodes[f].kind = "Folder" /\ depth(nodes, f) < depth(nodes, cur)

\* C12: an rmdir naming an existing folder whose depth is less than the
\* current directory's is refused with the depth message, and leaves the tree
\* and the current directory as they were
C12_ShallowerIsRefused ==
    [][ShallowerFolderNamed
         => (nodes' = nodes /\ cur' = cur /\ out' = Append(out, DepthMessage)
             /\ pc' # "aborted")]_vars

\* from a folder of depth 4, rmdir /home/user1/documents was refused and
\* documents is still there
C12_RefusedFromDeeper ==
    /\ pc = "prompt"
    /\ depth(nodes, cur) = 4
    /\ path = <<Seg("Root", <<>>), Seg("Dir", home), Seg("Dir", user1)>>
    /\ out = <<DepthMessage>>
    /\ \E n \in Attached : nodes[n].name = documents /\ depth(nodes, n) = 3

\* the step took one of the nodes the command names out of the collection
\* the command's path leads to
RemovedNamed ==
    \E f \in NamedBy(nodes, cur, Head(queue)) :
        \/ f \notin DOMAIN nodes'
        \/ f \notin ChildSet(nodes', Follow(nodes, cur, Head(queue).path, 1))

\* C13: an rmdir whose path resolves and names an existing folder of depth
\* greater than or equal to the current directory's (a sibling of the current
\* directory given as ../name, say) removes a folder of that name
C13_NotShallowerIsRemoved ==
    [][(Executing("Rmdir")
          /\ \E f \in NamedBy(nodes, cur, Head(queue)) :
                nodes[f].kind = "Folder" /\ depth(nodes, f) >= depth(nodes, cur))
         => RemovedNamed]_vars

\* the nodes the step takes out of a child collection whose owner lives on
Detached ==
    {n \in DOMAIN nodes :
        \E m \in DOMAIN nodes \cap DOMAIN nodes' :
            n \in ChildSet(nodes, m) /\ n \notin ChildSet(nodes', m)}

\* C14: executing rm detaches only File nodes, and executing rmdir detaches
\* only Folder nodes
C14_RmFilesRmdirFolders ==
    [][/\ Executing("Rm") => \A n \in Detached : nodes[n].kind = "File"
       /\ Executing("Rmdir") => \A n \in Detached : nodes[n].kind = "Folder"]_vars

\* the names of the children held in the sequence cs
NameSet(N, cs) == {N[cs[i]].name : i \in 1 .. Len(cs)}

\* no node that lives through the step changes its size
SizesKept == \A n \in DOMAIN nodes \cap DOMAIN nodes' : nodes'[n].size = nodes[n].size

\* the line being executed is `mkdir ab && rmdir ab`, with k commands to go
MkdirRmdirAt(k) ==
    /\ pc = "exec"
    /\ typed # <<>>
    /\ typed[Len(typed)] = line_mkdir_rmdir
    /\ Len(queue) = k

\* what the two steps of `mkdir ab && rmdir ab` do: the mkdir appends one new
\* child to the current directory, the rmdir leaves the child names that were
\* there before that child was appended; neither changes a size
MkdirThenRmdir ==
    /\ MkdirRmdirAt(2)
         => /\ \E h \in DOMAIN nodes' \ DOMAIN nodes :
                  nodes'[cur].children = Append(nodes[cur].children, h)
            /\ cur' = cur
            /\ SizesKept
    /\ MkdirRmdirAt(1)
         => /\ NameSet(nodes', nodes'[cur].children)
                  = NameSet(nodes, SubSeq(nodes[cur].children, 1, Len(nodes[cur].children) - 1))
            /\ cur' = cur
            /\ SizesKept

\* C15: `mkdir x` followed by `rmdir x` in the same current directory leaves
\* that directory's set of child names as it was before the two commands, and
\* leaves the size of that directory and of every other node unchanged
C15_MkdirRmdirRestoresNames == [][MkdirThenRmdir]_vars

\* `mkdir ab && rmdir ab` ran in a directory that already had a child ab
C15_RanWithNameTaken ==
    /\ pc = "prompt"
    /\ typed = <<line_mkdir_ab, line_mkdir_rmdir>>
    /\ queue = <<>>
    /\ Cardinality({i \in 1 .. Len(nodes[cur].children) :
                       nodes[nodes[cur].children[i]].name = <<"a", "b">>}) = 1

\* the position of child a in node m's collection (0 if it is not there)
PositionIn(N, m, a) ==
    IF a \in ChildSet(N, m)
    THEN CHOOSE i \in 1 .. Len(N[m].children) : N[m].children[i] = a
    ELSE 0

\* Name-based lookups take the first child of the name (dir_to_child,
\* get_index), so they select the earliest inserted one exactly as long as
\* children of one name stay in the order they were inserted in: a step keeps
\* the relative order of two same-named children it leaves in a collection,
\* and puts a child it inserts after those already there.
SameNamedStayInOrder ==
    \A m \in DOMAIN nodes \cap DOMAIN nodes' :
        \A a, b \in ChildSet(nodes', m) :
            (a # b /\ nodes'[a].name = nodes'[b].name /\ a \in ChildSet(nodes, m))
            => IF b \in ChildSet(nodes, m)
               THEN (PositionIn(nodes, m, a) < PositionIn(nodes, m, b))
                    = (PositionIn(nodes', m, a) < PositionIn(nodes', m, b))
               ELSE PositionIn(nodes', m, a) < PositionIn(nodes', m, b)

\* C16: among children of one name, every lookup by name selects the one
\* inserted earliest of those still present, after any insertions and removals
C16_EarliestInsertedIsSelected == [][SameNamedStayInOrder]_vars

\* the path of the command about to run leads to Root
LeadsToRoot ==
    /\ Walk(nodes, cur, Head(queue).path, 1) = "End"
    /\ Follow(nodes, cur, Head(queue).path, 1) = RootId

\* C17: no cd moves the current directory to Root, and no ls lists the
\* children of Root: an ls whose path leads to Root prints nothing
C17_RootIsNeverTarget ==
    [][/\ Executing("Cd") => cur' # RootId
       /\ (Executing("Ls") /\ LeadsToRoot) => out' = out]_vars

\* the last two lines read were `cd /` and then `ls`, and the ls has run
CdRootThenLsDone ==
    /\ Len(typed) >= 2
    /\ typed[Len(typed) - 1] = line_cd_root
    /\ typed[Len(typed)] = line_ls
    /\ pc = "prompt"

\* C18: after the line `cd /` and then the line `ls`, the listing is exactly
\* the top level built at start-up: the one entry home
C18_CdRootThenLsListsHome ==
    CdRootThenLsDone
    => (Len(out) = 1 /\ out[1].kind = "entry" /\ out[1].name = home /\ out[1].folder)

\* the commands built from the last line read, in their textual order
LastCommands == Parsed[typed[Len(typed)]].commands

\* while a line executes, what is still to run is a tail of the line's
\* commands: nothing is skipped ahead of its turn and nothing runs out of order
InTextualOrder ==
    (typed # <<>> /\ pc = "exec")
    => \E k \in 1 .. Len(LastCommands) : queue = SubSeq(LastCommands, k, Len(LastCommands))

\* the line `mkdir docs && touch docs/a.txt 5` was the last one read and has run
ChainDocsDone ==
    /\ typed # <<>>
    /\ typed[Len(typed)] = line_chain_docs
    /\ pc = "prompt"

\* the current directory holds a folder docs that holds a file a.txt of size 5
FileInNewFolder ==
    \E d \in ChildSet(nodes, cur) :
       /\ nodes[d].kind = "Folder"
       /\ nodes[d].name = <<"d", "o", "c", "s">>
       /\ \E f \in ChildSet(nodes, d) :
             /\ nodes[f].kind = "File"
             /\ nodes[f].name = <<"a", ".", "t", "x", "t">>
             /\ nodes[f].size = 5

\* C19: the commands of a parsed chain run in left-to-right order, each from
\* the tree and current directory the previous one left: after
\* `mkdir docs && touch docs/a.txt 5` the file is inside the folder just created
C19_ChainRunsLeftToRight == InTextualOrder /\ (ChainDocsDone => FileInNewFolder)

\* the chain has run to its end and the file is in the new folder
C19_ChainDocsRan == ChainDocsDone /\ FileInNewFolder /\ queue = <<>>

\* the path of the command about to run cannot be followed from the current directory
PathUnresolved == Walk(nodes, cur, Head(queue).path, 1) # "End"

\* the command about to run removes a name its target does not hold
NameAbsent ==
    /\ Head(queue).verb \in {"Rm", "Rmdir"}
    /\ ~PathUnresolved
    /\ NamedBy(nodes, cur, Head(queue)) = {}

\* the command about to run is refused with a message
Refused ==
    \E o \in {execute(nodes, cur, Head(queue))} :
       ~o.panic /\ \E i \in 1 .. Len(o.out) : o.out[i].kind = "msg"

\* a command of a chain is about to fail and is not the last of its chain
FailsBeforeLast ==
    /\ pc = "exec"
    /\ Len(queue) >= 2
    /\ (PathUnresolved \/ NameAbsent \/ Refused)

\* execution goes on with the commands after the one that ran
GoesOn == queue' = Tail(queue) /\ pc' = "exec"

Permitted(p, t) ==
    IF p = "Command" THEN t = "Space"
    ELSE IF p = "Space" THEN t # "Dot"
    ELSE IF p = "Word" THEN t \in {"And", "Slash", "Dot", "Space"}
    ELSE IF p = "Slash" THEN t \in {"Word", "And", "Space"}
    ELSE IF p = "Dot" THEN t = "Word"
    ELSE IF p = "PreviousDir" THEN t = "Slash"
    ELSE IF p = "Number" THEN t = "Space"
    ELSE IF p = "And" THEN t \in {"Command", "Space"}
    ELSE TRUE

\* the positions of ts whose token may not follow the token before it
BadPairs(ts) == {i \in 2 .. Len(ts) : ~Permitted(ts[i - 1].t, ts[i].t)}

\* the parser has returned for a vector of tokens that starts with a command
\* keyword and holds a pair the table does not permit
ReturnedForBadPair ==
    /\ pc = "generated"
    /\ scanned.tokens # <<>>
    /\ scanned.tokens[1].t = "Command"
    /\ BadPairs(scanned.tokens) # {}

\* the parser has returned for a vector whose first token is no command keyword
ReturnedForNoCommand ==
    pc = "generated" /\ scanned.tokens # <<>> /\ scanned.tokens[1].t # "Command"

\* C21 as stated: every vector of tokens that starts with a command keyword
\* and holds a pair the table does not permit returns UnexpectedToken, and a
\* vector whose first token is no command keyword returns InvalidCommand
C21_BadPairIsUnexpectedToken ==
    /\ ReturnedForBadPair => generated.err = "UnexpectedToken"
    /\ ReturnedForNoCommand => generated.err = "InvalidCommand"

\* nothing before position i builds a command or closes an argument: no And,
\* and no Space that comes after a token of an argument
Quiet(ts, i) ==
    \A j \in 1 .. (i - 1) :
       /\ ts[j].t # "And"
       /\ ts[j].t = "Space"
          => \A k \in 1 .. (j - 1) : ts[k].t \in {"Command", "Space", "UnexpectedToken"}

\* the first position of ts whose token may not follow the token before it
FirstBadPair(ts) == CHOOSE i \in BadPairs(ts) : \A j \in BadPairs(ts) : i <= j

\* C21: a vector of tokens that starts with a command keyword and holds a pair
\* the table does not permit never parses: it returns UnexpectedToken, or the
\* error of a command built or an argument compiled before the pair
\* (InvalidArguments, InvalidType, InvalidPath), and it returns
\* UnexpectedToken when nothing is built or compiled before the pair; a
\* vector whose first token is no command keyword returns InvalidCommand
C21_BadPairNeverParses ==
    /\ ReturnedForBadPair
       => /\ generated.err \in {"UnexpectedToken", "InvalidArguments", "InvalidType", "InvalidPath"}
          /\ Quiet(scanned.tokens, FirstBadPair(scanned.tokens))
             => generated.err = "UnexpectedToken"
    /\ ReturnedForNoCommand => generated.err = "InvalidCommand"

\* a pair that is not permitted comes after an And whose command did not build
C21_EarlierBuildFailed ==
    /\ pc = "generated"
    /\ scanned.tokens = <<TokCommand("Cd"), TokPlain("Space"), TokPlain("And"), TokPlain("And")>>
    /\ generated.err = "InvalidArguments"

\* the front end has returned for a single-verb line of the grammar
ReturnedForGrammarLine == pc = "generated" /\ input_text \in GrammarLines

\* C22: every single-verb line whose arguments follow the path grammar and
\* whose number of arguments is the verb's tokenizes and parses to Ok with
\* exactly one command, for paths such as `../..` and `../x/..` and for file
\* names beginning with a digit as well
C22_GrammarLinesParse ==
    ReturnedForGrammarLine => generated.err = "Ok" /\ Len(generated.commands) = 1

\* the numbers of arguments every verb takes
Arity ==
    [Cd |-> {1}, Mkdir |-> {1}, Rm |-> {1}, Rmdir |-> {1}, Ls |-> {0, 1}, Touch |-> {1, 2}]

\* build has returned, or aborted, for a builder whose number of arguments
\* is outside the arity of its verb
BuiltOutsideArity ==
    /\ pc \in {"built", "aborted"}
    /\ Len(cb.arguments) \notin Arity[cb.command_type]

\* C23: building a command with a number of arguments outside the arity of
\* its verb fails with InvalidArguments, whatever the arguments are: the
\* number of arguments is checked before any kind of argument
C23_ArityIsCheckedFirst == BuiltOutsideArity => made.err = "InvalidArguments"

\* cd was built with two arguments, the first of them a number
C23_TwoArgumentsWrongKind ==
    /\ pc = "built"
    /\ cb.command_type = "Cd"
    /\ Len(cb.arguments) = 2
    /\ cb.arguments[1].a = "Number"
    /\ made.err = "InvalidArguments"

\* C24: tokenize is total: for every input string the scan ends and returns
\* its tokens without aborting
C24_TokenizeIsTotal == pc # "input" => ~scanned.panic /\ pc # "aborted"

\* the conditions under which touch creates its file: the name has no space
\* and at most 12 characters, the size is above 0 and below 4194304, the text
\* after the last `.` has 3 characters, and the parent path resolves
TouchAccepts(N, c, cmd) ==
    /\ \A i \in 1 .. Len(cmd.name) : cmd.name[i] # " "
    /\ Len(cmd.name) <= 12
    /\ 0 < cmd.size
    /\ cmd.size < 4194304
    /\ Len(after_last_dot(cmd.name)) = 3
    /\ Walk(N, c, cmd.path, 1) = "End"

\* the step adds exactly one node: a File of cmd's name and size, child of
\* the node cmd's path resolves to
AddsOneFile(cmd) ==
    \E target \in {Follow(nodes, cur, cmd.path, 1)} :
       \E h \in DOMAIN nodes' \ DOMAIN nodes :
          /\ DOMAIN nodes' = DOMAIN nodes \cup {h}
          /\ nodes'[h].kind = "File"
          /\ nodes'[h].name = cmd.name
          /\ nodes'[h].size = cmd.size
          /\ nodes'[h].parent = target
          /\ nodes'[target].children = Append(nodes[target].children, h)

TouchStep ==
    IF TouchAccepts(nodes, cur, Head(queue)) THEN AddsOneFile(Head(queue))
    ELSE nodes' = nodes

\* C25: touch adds exactly one new File of the given name and size to the
\* node its parent path resolves to if and only if the name has no space and
\* at most 12 characters, 0 < size < 4194304, the text after the last `.`
\* has 3 characters and the parent path resolves; otherwise the tree is unchanged
C25_TouchAddsIffAccepted == [][Executing("Touch") => TouchStep]_vars

\* alphabetic names for the segments of a path
AlphabeticNames == {<<"x">>, <<"a", "b", "c">>, <<"d", "e", "f">>, <<"c", "d", "r", "o", "m">>}

\* the shapes `verb [../]seg1/../segn[/name.ext]` of the bound: the verb, whether
\* `..` leads, the segments, and the file name and extension (or none)
PathShapes ==
    {[verb |-> v, up |-> u, segs |-> segs, file |-> f] :
        v \in DOMAIN Keyword, u \in BOOLEAN,
        segs \in UNION {[1 .. n -> AlphabeticNames] : n \in 1 .. 2},
        f \in {<<>>, <<<<"a">>, <<"t", "x", "t">>>>, <<<<"f", "i", "l", "e">>, <<"t", "x", "t">>>>}}

\* the line of a shape
LineOf(sh) ==
    Keyword[sh.verb] \o <<" ">> \o (IF sh.up THEN <<".", ".", "/">> ELSE <<>>)
    \o joined(sh.segs)
    \o (IF sh.file = <<>> THEN <<>> ELSE <<"/">> \o sh.file[1] \o <<".">> \o sh.file[2])

\* Word(seg1), Slash, Word(seg2), ...
RECURSIVE WordsAndSlashes(_)
WordsAndSlashes(segs) ==
    IF Len(segs) = 1 THEN <<TokWord(segs[1])>>
    ELSE <<TokWord(segs[1]), TokPlain("Slash")>> \o WordsAndSlashes(Tail(segs))

\* the tokens the line of a shape is to yield
TokensOf(sh) ==
    <<TokCommand(sh.verb), TokPlain("Space")>>
    \o (IF sh.up THEN <<TokPlain("PreviousDir"), TokPlain("Slash")>> ELSE <<>>)
    \o WordsAndSlashes(sh.segs)
    \o (IF sh.file = <<>> THEN <<>>
        ELSE <<TokPlain("Slash"), TokWord(sh.file[1]), TokPlain("Dot"), TokWord(sh.file[2])>>)

\* C26: tokenizing `verb seg1/seg2/.../name.ext` with alphabetic segments
\* yields Command(verb), Space, one Word per segment with a Slash between
\* them, and Word(name), Dot, Word(ext) for the file name; a leading `..`
\* yields PreviousDir; ` && ` yields Space, And, Space; a digit run yields
\* one Number with its value
C26_PathLinesTokenize ==
    pc \in {"tokens", "generated", "aborted"}
    => /\ \A sh \in PathShapes : input_text = LineOf(sh) => scanned.tokens = TokensOf(sh)
       /\ input_text = <<"c", "d", " ", "a", "b", "c", " ", "&", "&", " ", "l", "s">>
          => scanned.tokens = <<TokCommand("Cd"), TokPlain("Space"), TokWord(<<"a", "b", "c">>),
                                TokPlain("Space"), TokPlain("And"), TokPlain("Space"),
                                TokCommand("Ls")>>
       /\ input_text = <<"t", "o", "u", "c", "h", " ", "a", "b", "c", " ", "1", "2">>
          => scanned.tokens = <<TokCommand("Touch"), TokPlain("Space"), TokWord(<<"a", "b", "c">>),
                                TokPlain("Space"), TokNumber(12)>>

\* the positions of the quotes of s
Quotes(s) == {k \in 1 .. Len(s) : s[k] = "\""}

\* the text from just after position k up to, and excluding, the next quote
\* or the end of s
QuotedText(s, k) ==
    LET closing == {j \in Quotes(s) : j > k}
    IN SubSeq(s, k + 1, IF closing = {} THEN Len(s)
                        ELSE (CHOOSE j \in closing : \A i \in closing : j <= i) - 1)

\* C27: the first `"` of the input starts one Word token whose text is every
\* char up to, and excluding, the next `"` or the end of the input, whatever
\* chars these are; a quote that is never closed yields the same Word as a
\* closed one
C27_QuoteStartsOneWord ==
    (pc \in {"tokens", "generated", "aborted"} /\ Quotes(input_text) # {})
    => \E k \in Quotes(input_text) :
          /\ \A j \in Quotes(input_text) : k <= j
          /\ ~scanned.panic
          /\ \E i \in 1 .. Len(scanned.tokens) :
                scanned.tokens[i] = TokWord(QuotedText(input_text, k))

\* a check of the command about to run rejects it: touch's checks of the
\* name and the size, mkdir's check of the name, rmdir's comparison of
\* depths, cd's refusal of Root
PolicyFails ==
    \E cmd \in {Head(queue)} :
       \/ /\ cmd.verb = "Touch"
          /\ \/ \E i \in 1 .. Len(cmd.name) : cmd.name[i] = " "
             \/ Len(cmd.name) > 12
             \/ cmd.size = 0
             \/ cmd.size >= 4194304
             \/ Len(after_last_dot(cmd.name)) # 3
       \/ cmd.verb = "Mkdir" /\ Len(cmd.name) > 12
       \/ /\ cmd.verb = "Rmdir"
          /\ ~PathUnresolved
          /\ depth(nodes, Follow(nodes, cur, cmd.path, 1)) < depth(nodes, cur)
       \/ /\ cmd.verb = "Cd"
          /\ ~PathUnresolved
          /\ Follow(nodes, cur, cmd.path, 1) = RootId

\* the step writes at least one message
WritesMessage == \E i \in (Len(out) + 1) .. Len(out') : out'[i].kind = "msg"

\* C28: whenever a built command does not perform its effect, because its
\* path does not resolve, the name to remove is absent or a check rejects
\* it, at least one message is written for that command
C28_FailureIsReported ==
    [][(pc = "exec" /\ queue # <<>> /\ (PathUnresolved \/ NameAbsent \/ PolicyFails))
         => WritesMessage]_vars

\* the path abc
path_abc == <<Seg("Dir", <<"a", "b", "c">>)>>

\* C29: an And token closes the open argument as Space and the end of the
\* input do: in `cd abc&&ls` the argument abc is compiled and handed to the
\* cd before the `&&` (the line parses to cd abc, ls), and in `ls abc&&cd`
\* it is never handed to the cd after the `&&`
C29_AndClosesArgument ==
    pc = "generated"
    => /\ input_text = <<"c", "d", " ", "a", "b", "c", "&", "&", "l", "s">>
          => /\ generated.err = "Ok"
             /\ generated.commands = <<Cmd("Cd", path_abc, <<>>, 0), Cmd("Ls", <<>>, <<>>, 0)>>
       /\ input_text = <<"l", "s", " ", "a", "b", "c", "&", "&", "c", "d">>
          => \A i \in 2 .. Len(generated.commands) : generated.commands[i].path # path_abc

\* the verbs of the command keywords of ts, in the order of the tokens
RECURSIVE KeywordsOf(_)
KeywordsOf(ts) ==
    IF ts = <<>> THEN <<>>
    ELSE (IF Head(ts).t = "Command" THEN <<Head(ts).cmd>> ELSE <<>>) \o KeywordsOf(Tail(ts))

\* C30: when parsing succeeds, the list returned holds exactly one command
\* for every command keyword of the tokens, in the order of the keywords: no
\* keyword is dropped or replaced by a later one
C30_OneCommandPerKeyword ==
    (pc = "generated" /\ generated.err = "Ok")
    => [i \in 1 .. Len(generated.commands) |-> generated.commands[i].verb]
          = KeywordsOf(scanned.tokens)

\* the lines a chain is made of: `cd ..`, `ls`, a touch ending in a size, a
\* mkdir and a cd into the folder it makes
ChainParts ==
    {<<"c", "d", " ", ".", ".">>, <<"l", "s">>,
     <<"t", "o", "u", "c", "h", " ", "a", ".", "t", "x", "t", " ", "5">>,
     <<"m", "k", "d", "i", "r", " ", "x">>, <<"c", "d", " ", "x">>}

\* tokenizing and parsing the line s on its own
ParsedAlone(s) == generate_commands(tokenize(s).tokens)

\* the tree and the current directory that executing cmds one after the
\* other leaves, from the tree N and the current directory c
RECURSIVE Ran(_, _, _)
Ran(N, c, cmds) ==
    IF cmds = <<>> THEN <<N, c>>
    ELSE With(execute(N, c, Head(cmds)), LAMBDA o : Ran(o.nodes, o.cur, Tail(cmds)))

\* the line `A && B` parses, and executing it leaves what executing A and
\* then B leaves
ChainAsTwoLines(A, B) ==
    /\ generated.err = "Ok"
    /\ \E after_A \in {Ran(nodes, cur, ParsedAlone(A).commands)} :
          Ran(nodes, cur, generated.commands)
             = Ran(after_A[1], after_A[2], ParsedAlone(B).commands)

\* C31: when the lines A and B each tokenize and parse on their own, the
\* line `A && B` parses too, and executing it leaves the same tree and
\* current directory as executing A and then B as two lines
C31_ChainEqualsTwoLines ==
    pc = "generated"
    => \A A \in ChainParts, B \in ChainParts :
          (/\ input_text = A \o <<" ", "&", "&", " ">> \o B
           /\ ParsedAlone(A).err = "Ok"
           /\ ParsedAlone(B).err = "Ok")
          => ChainAsTwoLines(A, B)

\* C32: an alphabetic name in argument position that merely begins with a
\* verb is one Word holding the whole name, so `mkdir cdrom` builds a mkdir
\* for a folder named cdrom (and `mkdir lsfiles` one for lsfiles); `rmdir` is
\* tokenized as Command(Rmdir), never as Command(Rm) and a Word
C32_KeywordIsWholeName ==
    pc = "generated"
    => /\ input_text = <<"m", "k", "d", "i", "r", " ", "c", "d", "r", "o", "m">>
          => /\ scanned.tokens = <<TokCommand("Mkdir"), TokPlain("Space"),
                                   TokWord(<<"c", "d", "r", "o", "m">>)>>
             /\ generated.err = "Ok"
             /\ generated.commands = <<Cmd("Mkdir", <<>>, <<"c", "d", "r", "o", "m">>, 0)>>
       /\ input_text = <<"m", "k", "d", "i", "r", " ", "l", "s", "f", "i", "l", "e", "s">>
          => /\ scanned.tokens = <<TokCommand("Mkdir"), TokPlain("Space"),
                                   TokWord(<<"l", "s", "f", "i", "l", "e", "s">>)>>
             /\ generated.err = "Ok"
       /\ input_text = <<"r", "m", "d", "i", "r", " ", "a", "b", "c">>
          => scanned.tokens = <<TokCommand("Rmdir"), TokPlain("Space"), TokWord(<<"a", "b", "c">>)>>

\* the shape the claim gives a path: not empty, Root and Parent nowhere but
\* first, File nowhere but last
WellFormedPath(p) ==
    /\ p # <<>>
    /\ \A i \in 1 .. Len(p) :
          /\ p[i].k \in {"Root", "Parent"} => i = 1
          /\ p[i].k = "File" => i = Len(p)

HandedPaths ==
    {generated.handed[i].path : i \in {j \in 1 .. Len(generated.handed) :
                                          generated.handed[j].a = "Path"}}

\* C33: every Path argument the parser hands to a command builder is not
\* empty, has a Root segment only first, a Parent segment only first and a
\* File segment only last; so no build fails on path.last(), and the parent
\* path of a built mkdir, rmdir, touch or rm holds no File segment
C33_HandedPathsAreWellFormed ==
    pc = "generated"
    => /\ \A p \in HandedPaths : WellFormedPath(p)
       /\ generated.err # "Panic"
       /\ \A i \in 1 .. Len(generated.commands) :
             generated.commands[i].verb \in {"Mkdir", "Rmdir", "Touch", "Rm"}
             => \A j \in 1 .. Len(generated.commands[i].path) :
                   generated.commands[i].path[j].k # "File"

\* a mkdir was built from a handed path that starts at the parent and has a
\* folder to create below a folder
C33_ParentPathHanded ==
    /\ pc = "generated"
    /\ generated.err = "Ok"
    /\ \E p \in HandedPaths : Len(p) = 2 /\ p[1].k = "Parent" /\ p[2].k = "Dir"
    /\ \E i \in 1 .. Len(generated.commands) :
          /\ generated.commands[i].verb = "Mkdir"
          /\ generated.commands[i].path = <<Seg("Parent", <<>>)>>
====
